---- MODULE Spec2Model ----
(***************************************************************************)
(* Verification model of the 2-tier TODO application:                      *)
(*   - the JWT bearer authentication gate configured in                    *)
(*     backend/TodoApi/Program.cs (three bearer schemes, default policy),  *)
(*   - the identity-partitioned in-memory store (TodoService), of which    *)
(*     the repository shows GetTodosAsync; the other operations follow the *)
(*     design document.                                                    *)
(* Time is counted in minutes.                                             *)
(***************************************************************************)
EXTENDS Integers, Sequences, FiniteSets, TLC

VARIABLES
    clock,       \* DateTime.UtcNow, in minutes
    authTok,     \* token of the latest validation (NoToken before the first)
    authNow,     \* clock value the latest validation read
    authResult,  \* scheme -> outcome of the latest validation in that scheme
    presented,   \* configured issuers seen on tokens before the latest one
    console,     \* scheme -> what its events wrote during the latest validation
    userTodos,   \* TodoService._userTodos: userId -> (id -> TodoItem)
    nextId,      \* per-partition id counter
    last,        \* the latest store call and what it returned
    calls,       \* number of store calls made so far
    issued,      \* history: userId -> the ids create has returned so far
    userTodosB,  \* the store of a second run, for comparing two runs
    nextIdB,     \* the id counters of the second run
    lastB,       \* what the observer's latest call returned in the second run
    pc,          \* where the request in flight is in the pipeline
    ctxUser,     \* HttpContext.User of the request: its subject claim
    pinned,      \* an earlier request's validation, kept for comparison
    workers,     \* worker -> the store call it is running and how far it is
    userTodosRef,\* _userTodos as references: userId -> partition object
    objects,     \* partition object -> its records
    component,   \* the fields of AppComponent
    msal,        \* the MSAL instance: cached accounts and active account
    tasks,       \* the async methods of the component that are awaiting
    http         \* the requests of the component that are in flight

vars == <<clock, authTok, authNow, authResult, presented, console, userTodos,
          nextId, last, calls, issued, userTodosB, nextIdB, lastB, pc, ctxUser, pinned,
          workers, userTodosRef, objects, component, msal, tasks, http>>
authVars == <<authTok, authNow, authResult, presented, console>>
storeVars == <<userTodos, nextId, last, calls, issued>>
twinVars == <<userTodosB, nextIdB, lastB>>
gateVars == <<pc, ctxUser, pinned>>
raceVars == <<workers, userTodosRef, objects>>
uiVars == <<component, msal, tasks, http>>

----------------------------------------------------------------------------
(* Bounds of the model *)

\* the clock runs from ClockSkewMinutes to ClockSkewMinutes + MaxTicks
MaxTicks == 2
\* ids handed out per partition
MaxId == 2
\* store calls in one behaviour
MaxCalls == 3
\* requests served at the same time, each by a worker of its own
MaxWorkers == 2
\* requests the frontend issues in one behaviour
MaxRequests == 2
\* login() calls that await clearCache at the same time
MaxLogins == 2

----------------------------------------------------------------------------
(* Configuration: Program.cs *)

IssuerV1 == "https://sts.windows.net/52451440-c2a9-442f-8c20-8562d49f6846/"
IssuerV2 == "https://login.microsoftonline.com/52451440-c2a9-442f-8c20-8562d49f6846/v2.0"
\* an issuer of the same provider and tenant that is configured nowhere
IssuerOther == "https://login.microsoftonline.com/52451440-c2a9-442f-8c20-8562d49f6846/"

ClientId == "01d37875-07ee-427e-8be5-594fbe4c5632"
GraphApi == "00000003-0000-0000-c000-000000000000"
\* an application id that is configured nowhere
OtherApp == "11111111-1111-1111-1111-111111111111"

\* ClockSkew = TimeSpan.FromMinutes(5)
ClockSkewMinutes == 5

\* JwtBearerDefaults.AuthenticationScheme is "Bearer"
Schemes == {"AzureADv1", "AzureADv2", "Bearer"}
\* the two schemes registered under a name
NamedSchemes == {"AzureADv1", "AzureADv2"}

\* options.Authority: where the scheme's signing keys come from; the default
\* scheme sets none
NoAuthority == ""
Authority(scheme) ==
    CASE scheme = "AzureADv1" -> IssuerV1
      [] scheme = "AzureADv2" -> IssuerV2
      [] OTHER -> NoAuthority

\* every scheme given the issuer list of the default scheme
ValidIssuersShared(scheme) == {IssuerV1, IssuerV2}

ValidIssuers(scheme) ==
    CASE scheme = "AzureADv1" -> {IssuerV1}
      [] scheme = "AzureADv2" -> {IssuerV2}
      [] OTHER -> {IssuerV1, IssuerV2}

\* the issuers configured in some scheme
ConfiguredIssuers == {IssuerV1, IssuerV2}

ValidAudiences(scheme) == {ClientId, GraphApi}

ClockSkew(scheme) == ClockSkewMinutes

----------------------------------------------------------------------------
(* Tokens *)

\* A bearer token, by the claims the validation reads:
\*   iss  issuer claim
\*   sig  the authorities whose published signing keys verify the signature
\*        ({} for a forged or unsigned token)
\*   exp  expiry, in minutes
\*   aud  audience claim (a token may name several audiences)
\*   sub  subject claim ("" when absent)
ExpiryValues == (0 .. MaxTicks) \cup {ClockSkewMinutes + MaxTicks + 1}
Audiences == {{ClientId}, {GraphApi}, {OtherApp}, {ClientId, OtherApp}}
Subjects == {"u1", "u2"}
NoSubject == ""

\* the tokens the validator is run on: every combination of the claims, for
\* one account and for a token without subject
Tokens ==
    [iss : {IssuerV1, IssuerV2, IssuerOther},
     sig : SUBSET {IssuerV1, IssuerV2},
     exp : ExpiryValues,
     aud : Audiences,
     sub : {"u1", NoSubject}]

\* a request without Authorization header
NoToken == [iss |-> "", sig |-> {}, exp |-> 0, aud |-> {}, sub |-> NoSubject]

----------------------------------------------------------------------------
(* Token validation of one bearer scheme.  Program.cs sets the four         *)
(* Validate* switches and the clock skew of TokenValidationParameters; the  *)
(* token handler of the framework then checks the signature first and the   *)
(* payload in the order lifetime, audience, issuer, and hands the first     *)
(* failure to OnAuthenticationFailed.  Outcomes are named after the error   *)
(* kinds of the design document:                                            *)
(*   InvalidSignature  signature invalid, or no signing key available       *)
(*   Expired           SecurityTokenExpiredException                        *)
(*   AudienceMismatch  SecurityTokenInvalidAudienceException                *)
(*   UnknownIssuer     SecurityTokenInvalidIssuerException                  *)

\* ValidateIssuerSigningKey = true: the keys are those published by the
\* scheme's Authority
ValidateSignature(scheme, tok) ==
    /\ Authority(scheme) # NoAuthority
    /\ Authority(scheme) \in tok.sig

\* a lifetime check that forgets the clock skew
ValidateLifetimeNoSkew(scheme, tok, now) ==
    ~(tok.exp < now)

\* ValidateLifetime = true, ClockSkew = 5 minutes: the token is expired when
\* its expiry lies before now - ClockSkew
ValidateLifetime(scheme, tok, now) ==
    ~(tok.exp < now - ClockSkew(scheme))

\* an audience check that wants every audience of the token to be valid
ValidateAudienceAll(scheme, tok) ==
    tok.aud \subseteq ValidAudiences(scheme)

\* ValidateAudience = true: one of the token's audiences is a valid audience
ValidateAudience(scheme, tok) ==
    tok.aud \cap ValidAudiences(scheme) # {}

\* an issuer check by prefix of the provider's host instead of string equality
ValidateIssuerByHost(scheme, tok) ==
    \/ tok.iss \in ValidIssuers(scheme)
    \/ tok.iss = IssuerOther /\ IssuerV2 \in ValidIssuers(scheme)

\* ValidateIssuer = true: the issuer equals one of ValidIssuers
ValidateIssuer(scheme, tok) ==
    tok.iss \in ValidIssuers(scheme)

\* validation with the issuer checked before the signature
ValidateTokenIssuerFirst(scheme, tok, now) ==
    IF ~ValidateIssuer(scheme, tok) THEN "UnknownIssuer"
    ELSE IF ~ValidateSignature(scheme, tok) THEN "InvalidSignature"
    ELSE IF ~ValidateLifetime(scheme, tok, now) THEN "Expired"
    ELSE IF ~ValidateAudience(scheme, tok) THEN "AudienceMismatch"
    ELSE "Success"

ValidateToken(scheme, tok, now) ==
    IF ~ValidateSignature(scheme, tok) THEN "InvalidSignature"
    ELSE IF ~ValidateLifetime(scheme, tok, now) THEN "Expired"
    ELSE IF ~ValidateAudience(scheme, tok) THEN "AudienceMismatch"
    ELSE IF ~ValidateIssuer(scheme, tok) THEN "UnknownIssuer"
    ELSE "Success"

NoResults == [s \in Schemes |-> "NoResult"]

\* a validation kept for comparison: its token, the time it read, what the
\* schemes answered and the subject it produced
Pin(tok, now, results, user) ==
    [tok |-> tok, now |-> now, results |-> results, user |-> user]

NoPin == Pin(NoToken, 0, NoResults, NoSubject)

\* the version label of the token-validated events: the named schemes write
\* a fixed one, the default scheme looks for "sts.windows.net" in the issuer
TokenVersion(scheme, tok) ==
    CASE scheme = "AzureADv1" -> "v1.0"
      [] scheme = "AzureADv2" -> "v2.0"
      [] OTHER -> IF tok.iss = IssuerV1 THEN "v1.0" ELSE "v2.0"

\* JwtBearerEvents: what a scheme writes to the console for an outcome
NoLine == [event |-> "", version |-> "", text |-> ""]
Events(scheme, tok, result) ==
    CASE result = "Success" ->
           [event |-> "OnTokenValidated", version |-> TokenVersion(scheme, tok),
            text |-> tok.iss]
      [] result = "NoResult" -> NoLine
      [] OTHER ->
           [event |-> "OnAuthenticationFailed", version |-> "", text |-> result]

NoLines == [s \in Schemes |-> NoLine]

\* a handler whose token-validated event fails tokens labelled v1.0
HandleAuthenticateV2Only(scheme, tok, now) ==
    IF tok = NoToken THEN "NoResult"
    ELSE IF ValidateToken(scheme, tok, now) = "Success"
            /\ TokenVersion(scheme, tok) = "v1.0" THEN "Failed"
    ELSE ValidateToken(scheme, tok, now)

\* a handler that refuses a token it has accepted before
HandleAuthenticateOnce(scheme, tok, now) ==
    IF tok = NoToken THEN "NoResult"
    ELSE IF pinned.tok = tok /\ pinned.user # NoSubject THEN "Replayed"
    ELSE ValidateToken(scheme, tok, now)

\* a handler that keeps to the issuer format it saw first
HandleAuthenticateSticky(scheme, tok, now) ==
    IF tok = NoToken THEN "NoResult"
    ELSE IF presented # {} /\ tok.iss \notin presented THEN "UnknownIssuer"
    ELSE ValidateToken(scheme, tok, now)

\* JwtBearerHandler.HandleAuthenticateAsync of one scheme: no token, no result
HandleAuthenticate(scheme, tok, now) ==
    IF tok = NoToken THEN "NoResult"
    ELSE ValidateToken(scheme, tok, now)

\* a policy that lets every request through
AllowAnonymous(results) == TRUE

\* DefaultPolicy: the three schemes are all asked, RequireAuthenticatedUser
\* holds when one of them produced an authenticated identity
RequireAuthenticatedUser(results) ==
    \E s \in Schemes : results[s] = "Success"

\* JwtBearerHandler.HandleChallengeAsync: IncludeErrorDetails is left at its
\* default (true), so the WWW-Authenticate header of a scheme carries
\* error="invalid_token" and a description of the scheme's failure
ErrorDescription(result) ==
    CASE result = "InvalidSignature" -> "The signature is invalid"
      [] result = "Expired" -> "The token expired"
      [] result = "AudienceMismatch" -> "The audience is invalid"
      [] result = "UnknownIssuer" -> "The issuer is invalid"
      [] OTHER -> ""

\* the answer to a request the default policy does not let through: every
\* scheme of the policy is challenged and adds its WWW-Authenticate header
Challenge(results) ==
    [status |-> "401 Unauthorized",
     wwwAuthenticate |-> [s \in Schemes |-> ErrorDescription(results[s])]]

----------------------------------------------------------------------------
(* The store: TodoService.  _userTodos maps a user id to that user's        *)
(* partition, a map from id to TodoItem.  GetTodosAsync is the repository's *)
(* code; the other operations are modelled from the design document.       *)

Titles == {"t1", "t2", "", " "}
Descriptions == {"", "d"}

\* a trim that leaves white space in place
TrimNothing(title) == title

\* string.Trim on the titles of the model
Trim(title) == IF title = " " THEN "" ELSE title

\* the field values an update or a toggle sends
Patches ==
    {[title |-> "t2", description |-> "d", isCompleted |-> FALSE],
     [title |-> "t1", description |-> "", isCompleted |-> TRUE],
     [title |-> "", description |-> "d", isCompleted |-> TRUE]}

\* new ConcurrentDictionary<..>(): a map without keys
NoPartitions == <<>>
EmptyPartition == <<>>

Put(map, key, value) ==
    [k \in DOMAIN map \cup {key} |-> IF k = key THEN value ELSE map[k]]

Remove(map, key) ==
    [k \in DOMAIN map \ {key} |-> map[k]]

Values(map) == {map[k] : k \in DOMAIN map}

\* the outcome of a store call: the store after it, its status and the
\* records it returns
Outcome(todos, ids, status, items) ==
    [todos |-> todos, ids |-> ids, status |-> status, items |-> items]

\* an access that installs a fresh partition every time
GetOrAddFresh(todos, userId) ==
    Put(todos, userId, EmptyPartition)

\* an access that starts a new partition from the records of an existing one
GetOrAddCopied(todos, userId) ==
    IF userId \in DOMAIN todos THEN todos
    ELSE IF DOMAIN todos = {} THEN Put(todos, userId, EmptyPartition)
    ELSE Put(todos, userId, todos[CHOOSE u \in DOMAIN todos : TRUE])

\* _userTodos.GetOrAdd(userId, _ => new ConcurrentDictionary<int, TodoItem>())
GetOrAdd(todos, userId) ==
    IF userId \in DOMAIN todos THEN todos ELSE Put(todos, userId, EmptyPartition)

\* Values.OrderByDescending(t => t.CreatedDate): the orders the sort can
\* produce; records with equal CreatedDate come in the dictionary's
\* enumeration order, which is not specified
OrderByDescending(items) ==
    {seq \in [1 .. Cardinality(items) -> items] :
        /\ \A i, j \in 1 .. Cardinality(items) : i # j => seq[i] # seq[j]
        /\ \A i, j \in 1 .. Cardinality(items) :
               i < j => seq[i].createdDate >= seq[j].createdDate}

\* a listing that reads every partition
GetTodosAsyncAllUsers(todos, userId) ==
    [todos |-> GetOrAdd(todos, userId),
     results |-> OrderByDescending(UNION {Values(todos[u]) : u \in DOMAIN todos})]

\* TodoService.GetTodosAsync: the partition is created on first access
GetTodosAsync(todos, userId) ==
    [todos |-> GetOrAdd(todos, userId),
     results |-> OrderByDescending(Values(GetOrAdd(todos, userId)[userId]))]

\* get: the record with that id in the caller's partition, or NotFound
GetTodoAsync(todos, ids, userId, id) ==
    LET all == GetOrAdd(todos, userId) IN
    IF id \in DOMAIN all[userId]
    THEN Outcome(all, ids, "Ok", <<all[userId][id]>>)
    ELSE Outcome(all, ids, "NotFound", <<>>)

\* a create that numbers a record by the size of the partition
CreateTodoAsyncBySize(todos, ids, userId, title, description, now) ==
    IF Trim(title) = ""
    THEN Outcome(todos, ids, "InvalidArgument", <<>>)
    ELSE LET all == GetOrAdd(todos, userId)
             item == [id |-> Cardinality(DOMAIN all[userId]) + 1, title |-> title,
                      description |-> description, isCompleted |-> FALSE,
                      createdDate |-> now, updatedDate |-> now,
                      owner |-> userId]
         IN Outcome([all EXCEPT ![userId] = Put(@, item.id, item)],
                    [ids EXCEPT ![userId] = item.id + 1], "Ok", <<item>>)

\* create: a title that is empty after trimming is refused; otherwise the
\* record gets the partition's next id and createdDate = updatedDate = now.
\* owner is a ghost field naming the partition the record was created in.
CreateTodoAsync(todos, ids, userId, title, description, now) ==
    IF Trim(title) = ""
    THEN Outcome(todos, ids, "InvalidArgument", <<>>)
    ELSE LET all == GetOrAdd(todos, userId)
             item == [id |-> ids[userId], title |-> title,
                      description |-> description, isCompleted |-> FALSE,
                      createdDate |-> now, updatedDate |-> now,
                      owner |-> userId]
         IN Outcome([all EXCEPT ![userId] = Put(@, item.id, item)],
                    [ids EXCEPT ![userId] = @ + 1], "Ok", <<item>>)

\* an update that stores the patch as a new record when the id is unknown
UpdateTodoAsyncUpsert(todos, ids, userId, id, patch, now) ==
    LET all == GetOrAdd(todos, userId)
        item == [id |-> id, title |-> patch.title,
                 description |-> patch.description,
                 isCompleted |-> patch.isCompleted,
                 createdDate |-> IF id \in DOMAIN all[userId]
                                 THEN all[userId][id].createdDate ELSE now,
                 updatedDate |-> now, owner |-> userId]
    IN Outcome([all EXCEPT ![userId] = Put(@, id, item)], ids, "Ok", <<item>>)

\* an update that stamps both dates with the time of the call
UpdateTodoAsyncRestamp(todos, ids, userId, id, patch, now) ==
    LET all == GetOrAdd(todos, userId) IN
    IF id \notin DOMAIN all[userId]
    THEN Outcome(all, ids, "NotFound", <<>>)
    ELSE LET item == [all[userId][id] EXCEPT !.title = patch.title,
                                              !.description = patch.description,
                                              !.isCompleted = patch.isCompleted,
                                              !.createdDate = now,
                                              !.updatedDate = now]
         IN Outcome([all EXCEPT ![userId][id] = item], ids, "Ok", <<item>>)

\* update: replaces title, description and isCompleted of a record of the
\* caller's partition and sets updatedDate; id and createdDate stay
UpdateTodoAsync(todos, ids, userId, id, patch, now) ==
    LET all == GetOrAdd(todos, userId) IN
    IF id \notin DOMAIN all[userId]
    THEN Outcome(all, ids, "NotFound", <<>>)
    ELSE LET item == [all[userId][id] EXCEPT !.title = patch.title,
                                              !.description = patch.description,
                                              !.isCompleted = patch.isCompleted,
                                              !.updatedDate = now]
         IN Outcome([all EXCEPT ![userId][id] = item], ids, "Ok", <<item>>)

\* a setCompleted that flips the flag whatever value it is given
SetCompletedAsyncFlip(todos, ids, userId, id, value, now) ==
    LET all == GetOrAdd(todos, userId) IN
    IF id \notin DOMAIN all[userId]
    THEN Outcome(all, ids, "NotFound", <<>>)
    ELSE LET item == [all[userId][id] EXCEPT !.isCompleted = ~@,
                                              !.updatedDate = now]
         IN Outcome([all EXCEPT ![userId][id] = item], ids, "Ok", <<item>>)

\* setCompleted: sets isCompleted of a record of the caller's partition and
\* updatedDate
SetCompletedAsync(todos, ids, userId, id, value, now) ==
    LET all == GetOrAdd(todos, userId) IN
    IF id \notin DOMAIN all[userId]
    THEN Outcome(all, ids, "NotFound", <<>>)
    ELSE LET item == [all[userId][id] EXCEPT !.isCompleted = value,
                                              !.updatedDate = now]
         IN Outcome([all EXCEPT ![userId][id] = item], ids, "Ok", <<item>>)

\* a delete that reports success and leaves the record where it is
DeleteTodoAsyncKeep(todos, ids, userId, id) ==
    LET all == GetOrAdd(todos, userId) IN
    IF id \notin DOMAIN all[userId]
    THEN Outcome(all, ids, "NotFound", <<>>)
    ELSE Outcome(all, ids, "Ok", <<>>)

\* delete: removes a record of the caller's partition
DeleteTodoAsync(todos, ids, userId, id) ==
    LET all == GetOrAdd(todos, userId) IN
    IF id \notin DOMAIN all[userId]
    THEN Outcome(all, ids, "NotFound", <<>>)
    ELSE Outcome([all EXCEPT ![userId] = Remove(@, id)], ids, "Ok", <<>>)

----------------------------------------------------------------------------
(* Initial state and the clock *)

\* the record of a store call: the operation, the partition key and id it was
\* called with, and the status and records it returned
Call(op, userId, id, status, items) ==
    [op |-> op, userId |-> userId, id |-> id, status |-> status, items |-> items]

NoCall == Call("none", NoSubject, 0, "none", <<>>)

InitAuth ==
    /\ clock = ClockSkewMinutes
    /\ authTok = NoToken
    /\ authNow = ClockSkewMinutes
    /\ authResult = NoResults
    /\ presented = {}
    /\ console = NoLines

InitStore ==
    /\ userTodos = NoPartitions
    /\ nextId = [s \in Subjects |-> 1]
    /\ last = NoCall
    /\ calls = 0
    /\ issued = [s \in Subjects |-> {}]

InitTwin ==
    /\ userTodosB = NoPartitions
    /\ nextIdB = [s \in Subjects |-> 1]
    /\ lastB = NoCall

InitGate ==
    /\ pc = "idle"
    /\ ctxUser = NoSubject
    /\ pinned = NoPin

\* the workers that serve concurrent requests, one store call each
Workers == 1 .. MaxWorkers

\* partition objects: object 0 is in the store at the start of a race, object
\* w is the one worker w's GetOrAdd constructs
FirstObject == 0
Objects == {FirstObject} \cup Workers
NoObject == -1

\* the call of a worker that has not been given one
NoWork == [op |-> "none", id |-> 0, title |-> "", description |-> "",
           value |-> FALSE]

Idle ==
    [pc |-> "idle", userId |-> NoSubject, call |-> NoWork, ref |-> NoObject,
     lost |-> FALSE, after |-> {}, status |-> "none", items |-> <<>>]

InitWorkers ==
    /\ workers = [w \in Workers |-> Idle]
    /\ userTodosRef = NoPartitions
    /\ objects = [o \in Objects |-> EmptyPartition]

\* AppComponent as its field initialisers leave it: not logged in, still
\* initializing, nothing listed, empty form, nothing being edited.
\* subscribed: the two subscriptions of setupBroadcastListeners are live;
\* destroyed: ngOnDestroy has run
NoAccount == ""
NoTodo == [id |-> 0]
EmptyForm == [title |-> "", description |-> ""]

FieldInitializers ==
    [loginDisplay |-> FALSE, userProfile |-> NoAccount, loginInProgress |-> FALSE,
     isInitializing |-> TRUE, todos |-> <<>>, newTodo |-> EmptyForm,
     editingTodo |-> NoTodo, subscribed |-> FALSE, destroyed |-> FALSE]

\* an MSAL instance with an empty cache
EmptyCache == [accounts |-> {}, active |-> NoAccount]

\* no method awaiting: ngOnInit not called, no login() awaiting clearCache;
\* redirects counts the loginRedirect calls since loginInProgress was last
\* reset, sent the requests issued so far
NoTasks == [ngOnInit |-> "constructed", logins |-> 0, redirects |-> 0, sent |-> 0,
            cleared |-> FALSE]

InitComponent ==
    /\ component = FieldInitializers
    /\ msal = EmptyCache
    /\ tasks = NoTasks
    /\ http = {}

\* DateTime.UtcNow advances
MaxClock == ClockSkewMinutes + MaxTicks

Tick ==
    /\ clock < MaxClock
    /\ clock' = clock + 1
    /\ UNCHANGED <<uiVars, raceVars, authVars, storeVars, twinVars, gateVars>>

----------------------------------------------------------------------------
(* Store calls made for an authenticated user *)

Ids == 1 .. MaxId

\* a call returns: the store and the call's record are replaced together
Return(op, userId, id, out) ==
    /\ userTodos' = out.todos
    /\ nextId' = out.ids
    /\ last' = Call(op, userId, id, out.status, out.items)
    /\ calls' = calls + 1
    /\ issued' = IF op = "create" /\ out.status = "Ok"
                 THEN [issued EXCEPT ![userId] = @ \cup {out.items[1].id}]
                 ELSE issued

ListTodos(userId) ==
    /\ calls < MaxCalls
    /\ LET got == GetTodosAsync(userTodos, userId) IN
       \E items \in got.results :
           Return("list", userId, 0, Outcome(got.todos, nextId, "Ok", items))
    /\ UNCHANGED <<uiVars, raceVars, clock, authVars, twinVars, gateVars>>

GetTodo(userId, id) ==
    /\ calls < MaxCalls
    /\ Return("get", userId, id, GetTodoAsync(userTodos, nextId, userId, id))
    /\ UNCHANGED <<uiVars, raceVars, clock, authVars, twinVars, gateVars>>

CreateTodo(userId, title, description) ==
    /\ calls < MaxCalls
    /\ nextId[userId] <= MaxId
    /\ Return("create", userId, nextId[userId],
              CreateTodoAsync(userTodos, nextId, userId, title, description, clock))
    /\ UNCHANGED <<uiVars, raceVars, clock, authVars, twinVars, gateVars>>

UpdateTodo(userId, id, patch) ==
    /\ calls < MaxCalls
    /\ Return("update", userId, id,
              UpdateTodoAsync(userTodos, nextId, userId, id, patch, clock))
    /\ UNCHANGED <<uiVars, raceVars, clock, authVars, twinVars, gateVars>>

SetCompleted(userId, id, value) ==
    /\ calls < MaxCalls
    /\ Return("setCompleted", userId, id,
              SetCompletedAsync(userTodos, nextId, userId, id, value, clock))
    /\ UNCHANGED <<uiVars, raceVars, clock, authVars, twinVars, gateVars>>

DeleteTodo(userId, id) ==
    /\ calls < MaxCalls
    /\ Return("delete", userId, id, DeleteTodoAsync(userTodos, nextId, userId, id))
    /\ UNCHANGED <<uiVars, raceVars, clock, authVars, twinVars, gateVars>>

Init == InitAuth /\ InitStore /\ InitTwin /\ InitGate /\ InitWorkers /\ InitComponent

Next ==
    \/ \E u \in Subjects : ListTodos(u)
    \/ \E u \in Subjects, id \in Ids : GetTodo(u, id)
    \/ \E u \in Subjects, t \in Titles, d \in Descriptions : CreateTodo(u, t, d)
    \/ \E u \in Subjects, id \in Ids, p \in Patches : UpdateTodo(u, id, p)
    \/ \E u \in Subjects, id \in Ids, v \in BOOLEAN : SetCompleted(u, id, v)
    \/ \E u \in Subjects, id \in Ids : DeleteTodo(u, id)
    \/ Tick

Spec == Init /\ [][Next]_vars

----------------------------------------------------------------------------
(* Properties of the store *)

Partition(todos, u) == IF u \in DOMAIN todos THEN todos[u] ELSE EmptyPartition

\* C1: whatever calls were made before, the records a list or get call
\* returns to a subject were all created under that subject, and every record
\* is stored in the partition of the subject that created it.
C1_ReadIsolation ==
    /\ last.op \in {"list", "get"} =>
           \A i \in 1 .. Len(last.items) : last.items[i].owner = last.userId
    /\ \A u \in DOMAIN userTodos : \A id \in DOMAIN userTodos[u] :
           userTodos[u][id].owner = u

\* u2 has listed its partition and got its own record only, while u1 holds a
\* record with the same id
C1_Witness ==
    /\ last.op = "list"
    /\ last.userId = "u2"
    /\ Len(last.items) = 1
    /\ "u1" \in DOMAIN userTodos
    /\ last.items[1].id \in DOMAIN userTodos["u1"]

\* what a step did to the record with this id in u's partition
Changed(u, id) ==
    /\ id \in DOMAIN Partition(userTodos, u)
    /\ id \in DOMAIN Partition(userTodos', u)
    /\ Partition(userTodos, u)[id] # Partition(userTodos', u)[id]
Removed(u, id) ==
    /\ id \in DOMAIN Partition(userTodos, u)
    /\ id \notin DOMAIN Partition(userTodos', u)
Added(u, id) ==
    /\ id \notin DOMAIN Partition(userTodos, u)
    /\ id \in DOMAIN Partition(userTodos', u)

\* C3: a record's fields change only in a successful update or setCompleted
\* call with the owning subject and that id, a record disappears only in a
\* successful delete call with the owning subject and that id, and a record
\* appears only in a create call of the owning subject; so a call of another
\* subject, a failed call, a list and a get leave every record as it was.
C3_WriteIsolation ==
    [][\A u \in Subjects : \A id \in 1 .. MaxId + 1 :
          /\ Changed(u, id) =>
                 /\ last'.op \in {"update", "setCompleted"}
                 /\ last'.userId = u /\ last'.id = id /\ last'.status = "Ok"
          /\ Removed(u, id) =>
                 /\ last'.op = "delete"
                 /\ last'.userId = u /\ last'.id = id /\ last'.status = "Ok"
          /\ Added(u, id) =>
                 /\ last'.op = "create"
                 /\ last'.userId = u /\ last'.id = id /\ last'.status = "Ok"
          /\ (last'.op \in {"list", "get"} \/ last'.status # "Ok" \/ last'.userId # u)
                 => Partition(userTodos', u) = Partition(userTodos, u)]_vars

\* u2 has called update with an id that only u1's partition holds and got
\* NotFound
C3_Witness ==
    /\ last.op = "update"
    /\ last.userId = "u2"
    /\ last.status = "NotFound"
    /\ "u1" \in DOMAIN userTodos
    /\ last.id \in DOMAIN userTodos["u1"]

----------------------------------------------------------------------------
(* Two runs side by side.  The runs receive the same calls of the observer  *)
(* at the same times and differ only in the calls of the other subject.     *)

Observer == "u2"
Other == "u1"

\* a store call by its operation and arguments
StoreCalls ==
    [op : {"list"}, id : {0}, title : {""}, description : {""}, value : {FALSE}]
    \cup [op : {"get", "delete"}, id : Ids, title : {""}, description : {""},
          value : {FALSE}]
    \cup [op : {"create"}, id : {0}, title : {"t1", " "}, description : {"d"},
          value : {FALSE}]
    \cup [op : {"update"}, id : Ids, title : {"t2"}, description : {""},
          value : BOOLEAN]
    \cup [op : {"setCompleted"}, id : Ids, title : {""}, description : {""},
          value : BOOLEAN]

\* the outcomes the call c of userId can have on a store
Execute(todos, ids, userId, c, now) ==
    CASE c.op = "list" ->
           LET got == GetTodosAsync(todos, userId) IN
           {Outcome(got.todos, ids, "Ok", items) : items \in got.results}
      [] c.op = "get" -> {GetTodoAsync(todos, ids, userId, c.id)}
      [] c.op = "create" ->
           {CreateTodoAsync(todos, ids, userId, c.title, c.description, now)}
      [] c.op = "update" ->
           {UpdateTodoAsync(todos, ids, userId, c.id,
                            [title |-> c.title, description |-> c.description,
                             isCompleted |-> c.value], now)}
      [] c.op = "setCompleted" ->
           {SetCompletedAsync(todos, ids, userId, c.id, c.value, now)}
      [] OTHER -> {DeleteTodoAsync(todos, ids, userId, c.id)}

\* the id a call is made with: create is given the id it will assign
CallId(ids, userId, c) == IF c.op = "create" THEN ids[userId] ELSE c.id

\* the observer makes the same call in both runs
ObserverCall(c) ==
    /\ calls < MaxCalls
    /\ c.op = "create" => nextId[Observer] <= MaxId /\ nextIdB[Observer] <= MaxId
    /\ \E a \in Execute(userTodos, nextId, Observer, c, clock),
          b \in Execute(userTodosB, nextIdB, Observer, c, clock) :
          \* where the second run can answer as the first did, it does
          /\ (\E x \in Execute(userTodosB, nextIdB, Observer, c, clock) :
                  x.items = a.items) => b.items = a.items
          /\ Return(c.op, Observer, CallId(nextId, Observer, c), a)
          /\ userTodosB' = b.todos
          /\ nextIdB' = b.ids
          /\ lastB' = Call(c.op, Observer, CallId(nextIdB, Observer, c), b.status,
                           b.items)
    /\ UNCHANGED <<uiVars, raceVars, clock, authVars, gateVars>>

\* the other subject makes a call in the first run only
OtherCallA(c) ==
    /\ calls < MaxCalls
    /\ c.op = "create" => nextId[Other] <= MaxId
    /\ \E a \in Execute(userTodos, nextId, Other, c, clock) :
          /\ userTodos' = a.todos
          /\ nextId' = a.ids
          /\ issued' = IF c.op = "create" /\ a.status = "Ok"
                       THEN [issued EXCEPT ![Other] = @ \cup {a.items[1].id}]
                       ELSE issued
    /\ calls' = calls + 1
    /\ UNCHANGED <<uiVars, raceVars, clock, authVars, last, twinVars, gateVars>>

\* the other subject makes a call in the second run only
OtherCallB(c) ==
    /\ calls < MaxCalls
    /\ c.op = "create" => nextIdB[Other] <= MaxId
    /\ \E b \in Execute(userTodosB, nextIdB, Other, c, clock) :
          /\ userTodosB' = b.todos
          /\ nextIdB' = b.ids
    /\ calls' = calls + 1
    /\ UNCHANGED <<uiVars, raceVars, clock, authVars, userTodos, nextId, last, issued, lastB,
                   gateVars>>

NextTwin ==
    \/ \E c \in StoreCalls : ObserverCall(c)
    \/ \E c \in StoreCalls : OtherCallA(c)
    \/ \E c \in StoreCalls : OtherCallB(c)
    \/ Tick

SpecTwin == Init /\ [][NextTwin]_vars

\* C2: in two runs that differ only in the calls of the other subject, every
\* call of the observer returns the same status and records, and the
\* observer's partition and next id are the same; a get for an id held only by
\* the other subject answers NotFound as it does where the id exists nowhere.
C2_NonInterference ==
    /\ last = lastB
    /\ Partition(userTodos, Observer) = Partition(userTodosB, Observer)
    /\ nextId[Observer] = nextIdB[Observer]

\* the observer asked for an id that the other subject holds in the first run
\* and nobody holds in the second, and got NotFound in both
C2_Witness ==
    /\ last.op = "get"
    /\ last.status = "NotFound"
    /\ lastB.status = "NotFound"
    /\ last.id \in DOMAIN Partition(userTodos, Other)
    /\ last.id \notin DOMAIN Partition(userTodosB, Other)
    /\ last.id \notin DOMAIN Partition(userTodosB, Observer)

----------------------------------------------------------------------------
(* The request pipeline: UseAuthentication, UseAuthorization, MapControllers. *)
(* A request carries a bearer token (or none); the default policy validates   *)
(* it against the three schemes; the [Authorize] controller runs only for an  *)
(* authenticated user and calls the store with the user's subject.            *)

FarFuture == ClockSkewMinutes + MaxTicks + 1

GoodV1 == [iss |-> IssuerV1, sig |-> {IssuerV1, IssuerV2}, exp |-> FarFuture,
           aud |-> {ClientId}, sub |-> "u1"]
GoodV2 == [iss |-> IssuerV2, sig |-> {IssuerV1, IssuerV2}, exp |-> FarFuture,
           aud |-> {GraphApi}, sub |-> "u2"]

\* the tokens requests carry: two good ones, one that is within the clock skew
\* only at the start, a forged one, one without subject, and no token at all
RequestTokens ==
    {GoodV1, GoodV2,
     [GoodV2 EXCEPT !.exp = 0, !.sub = "u1"],
     [GoodV1 EXCEPT !.sig = {}, !.sub = "u2"],
     [GoodV2 EXCEPT !.sub = NoSubject],
     NoToken}

\* the store calls requests ask for
RequestCalls == {c \in StoreCalls : c.id <= 1 /\ c.title # " "}

\* a request arrives; the validation of the request before it may be kept
Receive(tok) ==
    /\ pc \in {"idle", "rejected", "done"}
    /\ calls < MaxCalls
    /\ pc' = "received"
    /\ authTok' = tok
    /\ authResult' = NoResults
    /\ console' = NoLines
    /\ ctxUser' = NoSubject
    /\ \/ pinned' = pinned
       \/ /\ pinned = NoPin
          /\ pc # "idle"
          /\ pinned' = Pin(authTok, authNow, authResult, ctxUser)
    /\ UNCHANGED <<uiVars, raceVars, clock, authNow, presented, storeVars, twinVars>>

\* UseAuthentication / UseAuthorization with the default policy: every scheme
\* validates the token; the request goes on to the controller when
\* RequireAuthenticatedUser holds and is answered 401 otherwise
Authorize ==
    /\ pc = "received"
    /\ LET results == [s \in Schemes |-> HandleAuthenticate(s, authTok, clock)] IN
       /\ authResult' = results
       /\ console' = [s \in Schemes |-> Events(s, authTok, results[s])]
       /\ authNow' = clock
       /\ IF RequireAuthenticatedUser(results)
          THEN pc' = "authorized" /\ ctxUser' = authTok.sub
          ELSE pc' = "rejected" /\ ctxUser' = NoSubject
    /\ UNCHANGED <<uiVars, raceVars, clock, authTok, presented, pinned, storeVars, twinVars>>

\* a controller that calls the store with whatever subject the user carries
ControllerAnySubject(c) ==
    /\ pc = "authorized"
    /\ calls < MaxCalls
    /\ c.op = "create" => (ctxUser \in Subjects /\ nextId[ctxUser] <= MaxId)
    /\ \E out \in Execute(userTodos, nextId, ctxUser, c, clock) :
          Return(c.op, ctxUser, CallId(nextId, ctxUser, c), out)
    /\ pc' = "done"
    /\ UNCHANGED <<uiVars, raceVars, clock, authVars, ctxUser, pinned, twinVars>>

\* TodosController: the store is called with the subject of the authenticated
\* user
Controller(c) ==
    /\ pc = "authorized"
    /\ ctxUser # NoSubject
    /\ calls < MaxCalls
    /\ c.op = "create" => nextId[ctxUser] <= MaxId
    /\ \E out \in Execute(userTodos, nextId, ctxUser, c, clock) :
          Return(c.op, ctxUser, CallId(nextId, ctxUser, c), out)
    /\ pc' = "done"
    /\ UNCHANGED <<uiVars, raceVars, clock, authVars, ctxUser, pinned, twinVars>>

\* TodosController: a user without subject claim is turned away
ControllerNoSubject ==
    /\ pc = "authorized"
    /\ ctxUser = NoSubject
    /\ pc' = "rejected"
    /\ UNCHANGED <<uiVars, raceVars, clock, authVars, ctxUser, pinned, storeVars, twinVars>>

NextGate ==
    \/ \E tok \in RequestTokens : Receive(tok)
    \/ Authorize
    \/ \E c \in RequestCalls : Controller(c)
    \/ ControllerNoSubject
    \/ Tick

SpecGate == Init /\ [][NextGate]_vars

\* a token that is valid for a named scheme at that time: issued by the
\* scheme's issuer, signed with its keys, within the clock skew, for a valid
\* audience
ValidFor(tok, now) ==
    \E s \in NamedSchemes :
        /\ tok.iss = Authority(s)
        /\ Authority(s) \in tok.sig
        /\ tok.exp >= now - ClockSkewMinutes
        /\ tok.aud \cap {ClientId, GraphApi} # {}

StoreTouched ==
    \/ calls' # calls
    \/ userTodos' # userTodos
    \/ nextId' # nextId
    \/ last' # last

\* C4: a store call is made only for the request in flight, after the
\* validation of that request's token has succeeded, and with the subject of
\* that token as partition key; a request without token or with a token that
\* fails validation is rejected and no step made for it touches the store.
C4_AuthenticationGate ==
    [][/\ StoreTouched =>
              /\ pc = "authorized" /\ authTok' = authTok
              /\ authTok # NoToken
              /\ \E s \in Schemes : authResult[s] = "Success"
              /\ ValidFor(authTok, authNow)
              /\ last'.userId = authTok.sub
       /\ (/\ pc = "received" /\ pc' # "received"
           /\ (authTok = NoToken \/ ~ValidFor(authTok, clock)))
              => (pc' = "rejected" /\ ~StoreTouched)
       /\ pc = "rejected" => ~StoreTouched]_vars

\* a request with a forged token has been rejected while the store holds a
\* record created by an authenticated request
C4_Witness ==
    /\ pc = "rejected"
    /\ authTok.sig = {}
    /\ authTok # NoToken
    /\ last.op = "create"
    /\ last.status = "Ok"
    /\ last.userId = "u1"

ValidationDone == pc \in {"authorized", "rejected", "done"}

\* C7: equal token and equal time give equal outcomes in every scheme and the
\* same subject, and a token with a subject that is issued by a configured
\* issuer, signed with its keys, with a matching audience and unexpired is
\* accepted with its own subject every time, whatever was validated or stored
\* before.
C7_Deterministic ==
    ValidationDone =>
        /\ (pinned # NoPin /\ pinned.tok = authTok /\ pinned.now = authNow) =>
               (pinned.results = authResult /\ pinned.user = ctxUser)
        /\ (ValidFor(authTok, authNow) /\ authTok.exp > authNow) =>
               /\ RequireAuthenticatedUser(authResult)
               /\ ctxUser = authTok.sub
               /\ (pinned.tok = authTok /\ pinned.now <= authNow) =>
                      pinned.user = ctxUser

\* the same good token has been accepted a second time, later, with the same
\* subject, after that subject stored a record
C7_Witness ==
    /\ pc = "authorized"
    /\ authTok = GoodV1
    /\ pinned.tok = GoodV1
    /\ pinned.now < authNow
    /\ pinned.user = "u1"
    /\ ctxUser = "u1"
    /\ Partition(userTodos, "u1") # EmptyPartition

----------------------------------------------------------------------------
(* The validator on its own: any token at any time *)

\* the default policy authenticates one token against the three schemes
Authenticate(tok) ==
    /\ authTok' = tok
    /\ authNow' = clock
    /\ LET results == [s \in Schemes |-> HandleAuthenticate(s, tok, clock)] IN
       /\ authResult' = results
       /\ console' = [s \in Schemes |-> Events(s, tok, results[s])]
    /\ presented' = presented \cup ({authTok.iss} \cap {IssuerV1, IssuerV2})
    /\ UNCHANGED <<uiVars, raceVars, clock, storeVars, twinVars, gateVars>>

NextValidator ==
    \/ \E tok \in Tokens : Authenticate(tok)
    \/ Tick

SpecValidator == Init /\ [][NextValidator]_vars

----------------------------------------------------------------------------
(* Properties of the validator *)

Validated == authTok # NoToken

\* the checks of a scheme, read off the token of the latest validation
SignatureVerifies(s) == Authority(s) # NoAuthority /\ Authority(s) \in authTok.sig
WithinLifetime == authTok.exp >= authNow - ClockSkewMinutes
AudienceMatches(s) == authTok.aud \cap ValidAudiences(s) # {}

\* C5 as stated: a token whose issuer equals no configured issuer is rejected
\* and the failure is UnknownIssuer, whatever its signature, expiry, audience
\* or subject are.
C5_UnknownIssuerAlways ==
    (Validated /\ authTok.iss \notin ConfiguredIssuers) =>
        /\ ~RequireAuthenticatedUser(authResult)
        /\ \E s \in Schemes : authResult[s] = "UnknownIssuer"

\* C5 amended: a token whose issuer equals no configured issuer (string
\* equality) is rejected by every scheme, whatever its signature, expiry,
\* audience or subject are; a scheme reports UnknownIssuer exactly when the
\* token passes that scheme's signature, lifetime and audience checks, which
\* run before the issuer check.
C5_UnknownIssuerRejected ==
    (Validated /\ authTok.iss \notin ConfiguredIssuers) =>
        \A s \in Schemes :
            /\ authResult[s] # "Success"
            /\ authResult[s] = "UnknownIssuer" <=>
                   (SignatureVerifies(s) /\ WithinLifetime /\ AudienceMatches(s))

\* a token of an unconfigured issuer of the same provider, valid in every
\* other respect, has been rejected as UnknownIssuer by the v2.0 scheme
C5_Witness ==
    /\ Validated
    /\ authTok.iss = IssuerOther
    /\ IssuerV2 \in authTok.sig
    /\ authTok.exp > authNow
    /\ authTok.aud = {ClientId}
    /\ authResult["AzureADv2"] = "UnknownIssuer"
    /\ ~RequireAuthenticatedUser(authResult)

\* C6: a correctly signed, unexpired token with a matching audience is
\* accepted under the legacy issuer (sts.windows.net) and under the current
\* issuer (login.microsoftonline.com .. v2.0), whatever tokens were presented
\* before.
C6_CrossFormat ==
    \A s \in NamedSchemes :
        (/\ Validated
         /\ authTok.iss = Authority(s)
         /\ Authority(s) \in authTok.sig
         /\ authTok.exp > authNow
         /\ authTok.aud \cap {ClientId, GraphApi} # {})
        => (authResult[s] = "Success" /\ RequireAuthenticatedUser(authResult))

\* a current-format token has been accepted after a legacy-format token was
\* presented
C6_Witness ==
    /\ authTok.iss = IssuerV2
    /\ IssuerV1 \in presented
    /\ authResult["AzureADv2"] = "Success"
    /\ authResult["AzureADv1"] # "Success"

\* C8 as stated: the checks run in the order issuer, signature, expiry,
\* audience and the first failing one is reported (by the scheme whose issuer
\* matches; by every scheme when none matches).
C8_IssuerFirst ==
    Validated =>
        \A s \in NamedSchemes :
            (authTok.iss \in ValidIssuers(s) \/ authTok.iss \notin ConfiguredIssuers)
            => authResult[s] = ValidateTokenIssuerFirst(s, authTok, authNow)

\* C8 amended: every scheme runs its checks in the fixed order signature,
\* expiry, audience, issuer and reports the first failing one; the subject is
\* no part of a scheme's validation.  So a token failing signature, expiry and
\* audience yields InvalidSignature, an expired token with a wrong audience
\* Expired, and a token with a wrong audience and no subject AudienceMismatch.
C8_SignatureFirst ==
    Validated =>
        \A s \in Schemes :
            /\ authResult[s] = "InvalidSignature" <=> ~SignatureVerifies(s)
            /\ authResult[s] = "Expired" <=>
                   (SignatureVerifies(s) /\ ~WithinLifetime)
            /\ authResult[s] = "AudienceMismatch" <=>
                   (SignatureVerifies(s) /\ WithinLifetime /\ ~AudienceMatches(s))
            /\ authResult[s] = "UnknownIssuer" <=>
                   (/\ SignatureVerifies(s) /\ WithinLifetime /\ AudienceMatches(s)
                    /\ authTok.iss \notin ValidIssuers(s))

\* an expired token with a wrong audience and an unconfigured issuer, signed
\* with the keys of the legacy authority, has been reported as Expired
C8_Witness ==
    /\ Validated
    /\ authTok.sig = {IssuerV1}
    /\ authTok.exp < authNow - ClockSkewMinutes
    /\ authTok.aud = {OtherApp}
    /\ authTok.iss = IssuerOther
    /\ authResult["AzureADv1"] = "Expired"

\* C9 as stated: the expiry check passes iff expiry > now - 5 minutes.
C9_StrictBoundary ==
    Validated =>
        \A s \in Schemes :
            SignatureVerifies(s) =>
                (authResult[s] # "Expired" <=>
                     authTok.exp > authNow - ClockSkewMinutes)

\* C9 amended: with the clock skew fixed at 5 minutes a token passes the
\* expiry check iff its expiry is not before now - 5 minutes: a token whose
\* expiry equals now - 5 minutes still passes, as does one that expired less
\* than 5 minutes ago; one whose expiry lies further back fails with Expired.
C9_InclusiveBoundary ==
    Validated =>
        \A s \in Schemes :
            SignatureVerifies(s) =>
                (authResult[s] # "Expired" <=>
                     authTok.exp >= authNow - ClockSkewMinutes)

\* a token whose expiry is exactly now - 5 minutes has been accepted
C9_Witness ==
    /\ Validated
    /\ authTok.exp = authNow - ClockSkewMinutes
    /\ authResult["AzureADv1"] = "Success"

\* C10: a token that reaches the audience check of the scheme matching its
\* issuer passes iff its audiences intersect that scheme's ValidAudiences, and
\* fails with AudienceMismatch otherwise.
C10_AudiencePerEntry ==
    \A s \in NamedSchemes :
        (/\ Validated
         /\ authTok.iss \in ValidIssuers(s)
         /\ Authority(s) \in authTok.sig
         /\ authTok.exp >= authNow - ClockSkewMinutes)
        => /\ authTok.aud \cap {ClientId, GraphApi} # {} => authResult[s] = "Success"
           /\ authTok.aud \cap {ClientId, GraphApi} = {} =>
                  authResult[s] = "AudienceMismatch"

\* a token naming the client id next to a foreign audience has been accepted
C10_Witness ==
    /\ Validated
    /\ authTok.aud = {ClientId, OtherApp}
    /\ authResult["AzureADv2"] = "Success"

\* C11: every token the default policy accepts carries the service's own
\* application id among its audiences; a token minted for another application
\* is not accepted.
C11_OwnAudienceOnly ==
    (Validated /\ RequireAuthenticatedUser(authResult)) => ClientId \in authTok.aud

----------------------------------------------------------------------------
(* Further properties of the request pipeline *)

C13_UniformRejection ==
    (/\ pc = "rejected" /\ authTok # NoToken
     /\ ~RequireAuthenticatedUser(authResult)
     /\ pinned # NoPin /\ pinned.tok # NoToken
     /\ ~RequireAuthenticatedUser(pinned.results))
    => Challenge(pinned.results) = Challenge(authResult)

\* the checks of a scheme on a token, from the scheme's configuration
SchemeAccepts(s, tok, now) ==
    /\ Authority(s) # NoAuthority
    /\ Authority(s) \in tok.sig
    /\ tok.exp >= now - ClockSkewMinutes
    /\ tok.aud \cap {ClientId, GraphApi} # {}
    /\ tok.iss = Authority(s)

\* C14: the validation of a request changes nothing in the store; its
\* outcome in every scheme and the subject it yields are those the checks on
\* the token give, whatever version label the events write to the console.
C14_ValidationNoEffect ==
    [][(pc = "received" /\ pc' # "received") =>
          /\ ~StoreTouched
          /\ \A s \in Schemes :
                 /\ authResult'[s] = "Success" <=> SchemeAccepts(s, authTok, clock)
                 /\ authResult'[s] = "Success" =>
                        console'[s].event = "OnTokenValidated"
          /\ ctxUser' = IF \E s \in Schemes : SchemeAccepts(s, authTok, clock)
                        THEN authTok.sub ELSE NoSubject]_vars

\* a legacy-format token has been validated, its event wrote the label v1.0,
\* and the record stored before is still there
C14_Witness ==
    /\ pc = "authorized"
    /\ console["AzureADv1"].version = "v1.0"
    /\ ctxUser = "u1"
    /\ Partition(userTodos, "u2") # EmptyPartition

----------------------------------------------------------------------------
(* Further properties of the store *)

\* the step is a call of this operation by u that returned this status
Returned(op, u, status) ==
    /\ calls' = calls + 1
    /\ last'.op = op
    /\ last'.userId = u
    /\ last'.status = status

\* C15: every successful create returns an id greater than every id create
\* has returned before in that partition, whether or not the records with
\* those ids are still stored; so no id is handed out twice.
C15_IdsNeverReused ==
    [][\A u \in Subjects :
          Returned("create", u, "Ok") =>
              /\ \A i \in issued[u] : last'.items[1].id > i
              /\ last'.items[1].id \notin DOMAIN Partition(userTodos, u)
              /\ last'.items[1].id \in DOMAIN Partition(userTodos', u)]_vars

\* a create has returned id 2 after the record with id 1, the only one of the
\* partition, was deleted
C15_Witness ==
    /\ last.op = "create"
    /\ last.status = "Ok"
    /\ last.id = 2
    /\ issued[last.userId] = {1, 2}
    /\ DOMAIN Partition(userTodos, last.userId) = {2}

\* C16: the first successful create of a subject returns id 1, however many
\* records other subjects have created; and a get with an id that the
\* caller's partition does not hold answers NotFound, also when another
\* partition holds that id.
C16_IdsPerPartition ==
    [][\A u \in Subjects :
          /\ (Returned("create", u, "Ok") /\ issued[u] = {})
                 => last'.items[1].id = 1
          /\ (\E st \in {"Ok", "NotFound"} : Returned("get", u, st))
                 => (last'.status = "NotFound" <=>
                         last'.id \notin DOMAIN Partition(userTodos, u))]_vars

\* u2's first create has returned id 1 after u1 had created two records
C16_Witness ==
    /\ last.op = "create"
    /\ last.userId = "u2"
    /\ last.status = "Ok"
    /\ last.id = 1
    /\ last.items[1].id = 1
    /\ DOMAIN Partition(userTodos, "u1") = {1, 2}

\* what get answers the subject u for id in this store
GetAnswer(todos, ids, u, id) ==
    <<GetTodoAsync(todos, ids, u, id).status, GetTodoAsync(todos, ids, u, id).items>>

\* C17: right after a successful create(u, t, d) that returned r, get(u, r.id)
\* returns a record with title t, description d, isCompleted false, id r.id
\* and createdDate = updatedDate = the time of the create; and a call of
\* another subject changes nothing in what get answers u, so the same holds
\* with calls of other subjects in between.
C17_CreateGetRoundTrip ==
    [][\A u \in Subjects :
          /\ \A t \in Titles, d \in Descriptions :
                 (CreateTodo(u, t, d) /\ last'.status = "Ok") =>
                     LET r == last'.items[1]
                         got == GetTodoAsync(userTodos', nextId', u, r.id)
                     IN /\ got.status = "Ok"
                        /\ got.todos = userTodos'
                        /\ got.items[1].id = r.id
                        /\ got.items[1].title = t
                        /\ got.items[1].description = d
                        /\ got.items[1].isCompleted = FALSE
                        /\ got.items[1].createdDate = clock
                        /\ got.items[1].updatedDate = clock
                        /\ r.createdDate = clock
          /\ (calls' = calls + 1 /\ last'.userId # u) =>
                 \A id \in 1 .. MaxId + 1 :
                     GetAnswer(userTodos', nextId', u, id)
                         = GetAnswer(userTodos, nextId, u, id)]_vars

\* u2 has got back the record it created, unchanged, after u1 created a
\* record of its own at a later time
C17_Witness ==
    /\ last.op = "get"
    /\ last.userId = "u2"
    /\ last.status = "Ok"
    /\ last.items[1].title = "t1"
    /\ last.items[1].description = "d"
    /\ last.items[1].isCompleted = FALSE
    /\ last.items[1].createdDate = last.items[1].updatedDate
    /\ 1 \in DOMAIN Partition(userTodos, "u1")
    /\ userTodos["u1"][1].createdDate > last.items[1].createdDate

\* C18: a create whose title is empty or white space only fails with
\* InvalidArgument and changes nothing: no record is added, the id counter
\* stays (the next successful create gets the id it would have got), and
\* list returns the same sequences as before.
C18_BlankTitleRefused ==
    [][\A u \in Subjects, t \in {"", " "}, d \in Descriptions :
          CreateTodo(u, t, d) =>
              /\ last'.status = "InvalidArgument"
              /\ last'.items = <<>>
              /\ userTodos' = userTodos
              /\ nextId' = nextId
              /\ issued' = issued
              /\ GetTodosAsync(userTodos', u).results
                     = GetTodosAsync(userTodos, u).results
              /\ CreateTodoAsync(userTodos', nextId', u, "t1", d, clock).items
                     = CreateTodoAsync(userTodos, nextId, u, "t1", d, clock).items]_vars

\* a create has been refused with InvalidArgument while the partition holds
\* the record with id 1, which stays the only id handed out
C18_Witness ==
    /\ last.op = "create"
    /\ last.status = "InvalidArgument"
    /\ DOMAIN Partition(userTodos, last.userId) = {1}
    /\ nextId[last.userId] = 2
    /\ issued[last.userId] = {1}

\* C19: every record in the store has a title that is not empty and not
\* white space only, whatever calls were made, updates with an empty title
\* included.
C19_TitleNeverEmpty ==
    \A u \in DOMAIN userTodos : \A id \in DOMAIN userTodos[u] :
        userTodos[u][id].title \notin {"", " "}

\* C20: an update of a record of the caller's partition returns the record
\* with the same id and createdDate, the fields of the patch and updatedDate
\* = the time of the call, and stores just that; an update with an id the
\* partition does not hold fails with NotFound and adds no record.
C20_UpdateContract ==
    [][\A u \in Subjects, id \in Ids, p \in Patches :
          UpdateTodo(u, id, p) =>
              IF id \in DOMAIN Partition(userTodos, u)
              THEN /\ last'.status = "Ok"
                   /\ Len(last'.items) = 1
                   /\ last'.items[1].id = id
                   /\ last'.items[1].createdDate = userTodos[u][id].createdDate
                   /\ last'.items[1].title = p.title
                   /\ last'.items[1].description = p.description
                   /\ last'.items[1].isCompleted = p.isCompleted
                   /\ last'.items[1].updatedDate = clock
                   /\ userTodos'[u][id] = last'.items[1]
                   /\ DOMAIN userTodos'[u] = DOMAIN userTodos[u]
                   /\ \A j \in DOMAIN userTodos[u] \ {id} :
                          userTodos'[u][j] = userTodos[u][j]
              ELSE /\ last'.status = "NotFound"
                   /\ last'.items = <<>>
                   /\ DOMAIN Partition(userTodos', u) = DOMAIN Partition(userTodos, u)
                   /\ nextId' = nextId]_vars

\* an update at a later time has returned the record with its createdDate
\* kept and the completed flag of the patch
C20_Witness ==
    /\ last.op = "update"
    /\ last.status = "Ok"
    /\ last.items[1].isCompleted
    /\ last.items[1].updatedDate > last.items[1].createdDate
    /\ userTodos[last.userId][last.id] = last.items[1]

\* C21 as stated: after a successful setCompleted the record's updatedDate
\* is strictly greater than its createdDate.
C21_UpdatedStrictlyLater ==
    (last.op = "setCompleted" /\ last.status = "Ok") =>
        last.items[1].updatedDate > last.items[1].createdDate

\* C21 amended: setCompleted(u, id, v) on a record of u's partition returns
\* and stores the record with isCompleted = v (also when it was v before) and
\* updatedDate = the time of the call, every other field as it was; so
\* updatedDate >= createdDate, and > when the clock has advanced since the
\* record was created.  With an id the partition lacks it fails with NotFound.
C21_SetCompletedContract ==
    [][\A u \in Subjects, id \in Ids, v \in BOOLEAN :
          SetCompleted(u, id, v) =>
              IF id \in DOMAIN Partition(userTodos, u)
              THEN /\ last'.status = "Ok"
                   /\ last'.items = <<[userTodos[u][id] EXCEPT
                                         !.isCompleted = v,
                                         !.updatedDate = clock]>>
                   /\ last'.items[1].isCompleted = v
                   /\ last'.items[1].updatedDate >= last'.items[1].createdDate
                   /\ clock > userTodos[u][id].createdDate =>
                          last'.items[1].updatedDate > last'.items[1].createdDate
                   /\ userTodos'[u][id] = last'.items[1]
                   /\ DOMAIN userTodos'[u] = DOMAIN userTodos[u]
                   /\ \A j \in DOMAIN userTodos[u] \ {id} :
                          userTodos'[u][j] = userTodos[u][j]
              ELSE /\ last'.status = "NotFound"
                   /\ last'.items = <<>>
                   /\ DOMAIN Partition(userTodos', u) = DOMAIN Partition(userTodos, u)]_vars

\* setCompleted has set the flag of a record in the minute the record was
\* created: the flag is set and updatedDate equals createdDate
C21_Witness ==
    /\ last.op = "setCompleted"
    /\ last.status = "Ok"
    /\ last.items[1].isCompleted
    /\ last.items[1].updatedDate = last.items[1].createdDate
    /\ userTodos[last.userId][last.id] = last.items[1]

\* a call on record id of partition u returns in this step
CalledOn(ops, u, id) ==
    /\ calls' = calls + 1
    /\ last'.op \in ops
    /\ last'.userId = u
    /\ last'.id = id

\* C22: delete(u, id) of a record of u's partition succeeds and removes it
\* and nothing else.  From then on the id stays out of the partition: get,
\* update, setCompleted and delete on (u, id) fail with NotFound and change no
\* record (a second delete restores nothing), and list(u) does not return it.
C22_DeleteIsPermanent ==
    [][\A u \in Subjects, id \in Ids :
          /\ (DeleteTodo(u, id) /\ id \in DOMAIN Partition(userTodos, u)) =>
                 /\ last'.status = "Ok"
                 /\ id \notin DOMAIN userTodos'[u]
                 /\ \A v \in Subjects, j \in Ids :
                        /\ Removed(v, j) <=> (v = u /\ j = id)
                        /\ ~Added(v, j)
                        /\ ~Changed(v, j)
          /\ (id \in issued[u] /\ id \notin DOMAIN Partition(userTodos, u)) =>
                 /\ id \notin DOMAIN Partition(userTodos', u)
                 /\ CalledOn({"get", "update", "setCompleted", "delete"}, u, id) =>
                        /\ last'.status = "NotFound"
                        /\ \A v \in Subjects :
                               Partition(userTodos', v) = Partition(userTodos, v)
                 /\ Returned("list", u, "Ok") =>
                        \A k \in DOMAIN last'.items : last'.items[k].id # id]_vars

\* a record has been created and deleted, and a second delete of it has
\* failed with NotFound
C22_Witness ==
    /\ last.op = "delete"
    /\ last.status = "NotFound"
    /\ last.id \in issued[last.userId]
    /\ last.id \notin DOMAIN Partition(userTodos, last.userId)

\* C23: list(u) returns exactly the records of u's partition, each once, the
\* one created later before the one created earlier (ids grow with creation),
\* whatever clock values the creates read and whatever updates came since.
C23_ListNewestFirst ==
    last.op = "list" =>
        /\ last.status = "Ok"
        /\ {last.items[k] : k \in DOMAIN last.items} = Values(userTodos[last.userId])
        /\ Len(last.items) = Cardinality(Values(userTodos[last.userId]))
        /\ \A i, j \in DOMAIN last.items :
               i < j => last.items[i].id > last.items[j].id

\* C24: list(u) always succeeds.  For a subject whose partition holds no
\* record (never seen, or every record deleted) it returns the empty sequence.
\* Creating the partition on first access changes no record and no id
\* counter: every subject is listed the same records afterwards as before,
\* and u's next create receives the id it would have received.
C24_ListNeverFails ==
    [][\A u \in Subjects :
          ListTodos(u) =>
              /\ last'.status = "Ok"
              /\ Partition(userTodos, u) = EmptyPartition => last'.items = <<>>
              /\ u \in DOMAIN userTodos'
              /\ nextId' = nextId
              /\ \A v \in Subjects :
                     /\ Partition(userTodos', v) = Partition(userTodos, v)
                     /\ v # u => (v \in DOMAIN userTodos' <=> v \in DOMAIN userTodos)
                     /\ GetTodosAsync(userTodos', v).results =
                            GetTodosAsync(userTodos, v).results
              /\ \A t \in Titles, d \in Descriptions :
                     LET before == CreateTodoAsync(userTodos, nextId, u, t, d, clock)
                         after == CreateTodoAsync(userTodos', nextId', u, t, d, clock)
                     IN /\ after.status = before.status
                        /\ after.items = before.items]_vars

\* the first call of a run was a list: it returned the empty sequence and
\* left the caller's partition, and no other, in the store
C24_Witness ==
    /\ calls = 1
    /\ last.op = "list"
    /\ last.status = "Ok"
    /\ last.items = <<>>
    /\ DOMAIN userTodos = {last.userId}

\* C25: every stored record has createdDate <= updatedDate; as long as a
\* record is in the store its createdDate stays what it was and its
\* updatedDate does not decrease.
C25_TimestampOrder ==
    [][\A u \in Subjects, id \in Ids :
          /\ id \in DOMAIN Partition(userTodos', u) =>
                 Partition(userTodos', u)[id].createdDate <=
                     Partition(userTodos', u)[id].updatedDate
          /\ (id \in DOMAIN Partition(userTodos, u)
                  /\ id \in DOMAIN Partition(userTodos', u)) =>
                 /\ Partition(userTodos', u)[id].createdDate =
                        Partition(userTodos, u)[id].createdDate
                 /\ Partition(userTodos', u)[id].updatedDate >=
                        Partition(userTodos, u)[id].updatedDate]_vars

\* a record has been changed after the clock moved past its creation time
C25_Witness ==
    \E u \in Subjects, id \in Ids :
        /\ id \in DOMAIN Partition(userTodos, u)
        /\ userTodos[u][id].updatedDate > userTodos[u][id].createdDate
        /\ last.op \in {"update", "setCompleted"}
        /\ last.status = "Ok"
        /\ last.userId = u
        /\ last.id = id

----------------------------------------------------------------------------
(* Failed requests *)

\* the requests that fail and the one that prepares the store for them: a
\* good token, a forged one and one without subject, with every store call
\* on record 1, a create with a blank title among them
FailureTokens ==
    {GoodV1, [GoodV1 EXCEPT !.sig = {}], [GoodV1 EXCEPT !.sub = NoSubject]}

FailureCalls == {c \in StoreCalls : c.id <= 1}

NextFailure ==
    \/ \E tok \in FailureTokens : Receive(tok)
    \/ Authorize
    \/ \E c \in FailureCalls : Controller(c)
    \/ ControllerNoSubject

SpecFailure == Init /\ [][NextFailure]_vars

\* the request in flight ends in this step with an error: it is rejected
\* (AuthError), or its store call answers NotFound or InvalidArgument
Failed ==
    \/ pc # "rejected" /\ pc' = "rejected"
    \/ calls' = calls + 1 /\ last'.status \in {"NotFound", "InvalidArgument"}

\* what a call would be answered on that store and what it would leave
\* behind: status, records returned, id counters, records of every subject
Effects(todos, ids, u, c, now) ==
    {<<out.status, out.items, out.ids,
       [v \in Subjects |-> Partition(out.todos, v)]>> :
         out \in Execute(todos, ids, u, c, now)}

\* C29: a request that ends in AuthError, NotFound or InvalidArgument leaves
\* every partition with the records it had and every id counter where it
\* was, so that any call of any subject is answered afterwards as it would
\* have been answered before, and leaves the same records behind.
C29_FailureHasNoEffect ==
    [][Failed =>
           /\ \A u \in Subjects : Partition(userTodos', u) = Partition(userTodos, u)
           /\ nextId' = nextId
           /\ issued' = issued
           /\ pc' = "rejected" => ~StoreTouched
           /\ \A u \in Subjects, c \in FailureCalls :
                  Effects(userTodos', nextId', u, c, clock) =
                      Effects(userTodos, nextId, u, c, clock)]_vars

\* a create with a blank title has been refused while the store holds a
\* record
C29_Witness ==
    /\ pc = "done"
    /\ last.op = "create"
    /\ last.status = "InvalidArgument"
    /\ \E u \in Subjects : Partition(userTodos, u) # EmptyPartition

----------------------------------------------------------------------------
(* Concurrent requests.  TodoService is registered as a singleton, so the   *)
(* workers that serve concurrent requests share one _userTodos.  A store    *)
(* call is a GetOrAdd on _userTodos followed by one call on the partition   *)
(* it returned.  ConcurrentDictionary.GetOrAdd with a value factory reads   *)
(* the key without a lock, constructs the value when the key is missing,    *)
(* and then adds it unless another thread has added one in between, in      *)
(* which case it returns that one.  Each of these dictionary calls is       *)
(* atomic; a worker can be preempted between them.  The call on the         *)
(* partition is one step: Values takes a snapshot, and the design document  *)
(* makes create, update and delete of a record mutually exclusive.          *)

\* AddScoped: every request gets a TodoService of its own, which starts empty
AddScoped(w, shared) == NoPartitions

\* builder.Services.AddSingleton<ITodoService, TodoService>(): every request
\* is given the one TodoService, and with it the one _userTodos
AddSingleton(w, shared) == shared

\* an add that replaces the value of a key that is there already
TryAddOverwrite(map, key, value) == Put(map, key, value)

\* the add at the end of GetOrAdd: it leaves a key that is there already
TryAdd(map, key, value) ==
    IF key \in DOMAIN map THEN map ELSE Put(map, key, value)

\* a method body under one lock: a worker waits while another is between its
\* first and its last dictionary call
ReadyUnderLock(w, ws) ==
    \A v \in DOMAIN ws : v # w => ws[v].pc \notin {"tryadd", "have"}

\* GetTodosAsync takes no lock and awaits a completed task: a worker's next
\* dictionary call never waits for another worker
Ready(w, ws) == TRUE

\* the store as the sequential operations see it: userId -> records
Deref(refs, objs) == [u \in DOMAIN refs |-> objs[refs[u]]]

\* the calls the concurrent workers make: on record 1, with two updates that
\* differ in every field
RaceCalls ==
    {c \in StoreCalls : c.op \in {"list", "get", "delete"} /\ c.id <= 1}
    \cup [op : {"create"}, id : {0}, title : {"t1"}, description : {"d"},
          value : {FALSE}]
    \cup {[op |-> "update", id |-> 1, title |-> "t2", description |-> "",
           value |-> TRUE],
          [op |-> "update", id |-> 1, title |-> "t3", description |-> "d",
           value |-> FALSE],
          [op |-> "setCompleted", id |-> 1, title |-> "", description |-> "",
           value |-> TRUE]}

\* the store when the workers start: u1 has created one record, u2 has never
\* been seen
RaceStart ==
    CreateTodoAsync(NoPartitions, [s \in Subjects |-> 1], "u1", "t1", "d",
                    ClockSkewMinutes)

\* the subject with the record is sent every call, the subject never seen
\* before the calls a first request makes
RaceCallsOf(userId) ==
    IF userId \in DOMAIN RaceStart.todos THEN RaceCalls
    ELSE {c \in RaceCalls : c.op \in {"list", "create"}}

InitRaceStore ==
    /\ userTodos = RaceStart.todos
    /\ nextId = RaceStart.ids
    /\ last = NoCall
    /\ calls = 0
    /\ issued = [s \in Subjects |-> IF s = "u1" THEN {1} ELSE {}]
    /\ workers = [w \in Workers |-> Idle]
    /\ userTodosRef = [u \in {"u1"} |-> FirstObject]
    /\ objects = [o \in Objects |-> IF o = FirstObject THEN RaceStart.todos["u1"]
                                    ELSE EmptyPartition]

\* a request arrives and is given to the first worker that is free; the
\* worker notes which calls had returned by then
Begin(w, userId, c) ==
    /\ workers[w].pc = "idle"
    /\ \A v \in Workers : v < w => workers[v].pc # "idle"
    /\ workers' = [workers EXCEPT ![w] =
                       [@ EXCEPT !.pc = "lookup", !.userId = userId, !.call = c,
                                 !.after = {v \in Workers : workers[v].pc = "done"}]]
    /\ UNCHANGED <<uiVars, clock, authVars, storeVars, twinVars, gateVars,
                   userTodosRef, objects>>

\* GetOrAdd reads the key; when it is missing the factory constructs a
\* partition, which only this worker knows so far
Lookup(w) ==
    /\ workers[w].pc = "lookup"
    /\ Ready(w, workers)
    /\ LET map == AddSingleton(w, userTodosRef)
           u == workers[w].userId
       IN workers' = [workers EXCEPT ![w] =
                          IF u \in DOMAIN map
                          THEN [@ EXCEPT !.pc = "have", !.ref = map[u]]
                          ELSE [@ EXCEPT !.pc = "tryadd", !.ref = w]]
    /\ UNCHANGED <<uiVars, clock, authVars, storeVars, twinVars, gateVars,
                   userTodosRef, objects>>

\* GetOrAdd adds the constructed partition, or gives way to the one another
\* worker has added since the read
TryAddPartition(w) ==
    /\ workers[w].pc = "tryadd"
    /\ Ready(w, workers)
    /\ LET u == workers[w].userId
           map == TryAdd(AddSingleton(w, userTodosRef), u, w)
       IN /\ userTodosRef' = map
          /\ workers' = [workers EXCEPT ![w] =
                             [@ EXCEPT !.pc = "have", !.ref = map[u],
                                       !.lost = (map[u] # w)]]
          /\ userTodos' = Deref(map, objects)
    /\ UNCHANGED <<uiVars, clock, authVars, nextId, last, calls, issued, twinVars,
                   gateVars, objects>>

\* the call on the partition the worker holds, and the return to the caller
Apply(w) ==
    /\ workers[w].pc = "have"
    /\ Ready(w, workers)
    /\ LET u == workers[w].userId
           o == workers[w].ref
       IN \E out \in Execute(Put(NoPartitions, u, objects[o]), nextId, u,
                             workers[w].call, clock) :
              /\ objects' = [objects EXCEPT ![o] = out.todos[u]]
              /\ nextId' = out.ids
              /\ issued' = IF workers[w].call.op = "create" /\ out.status = "Ok"
                           THEN [issued EXCEPT ![u] = @ \cup {out.items[1].id}]
                           ELSE issued
              /\ workers' = [workers EXCEPT ![w] =
                                 [@ EXCEPT !.pc = "done", !.status = out.status,
                                           !.items = out.items]]
              /\ userTodos' = Deref(userTodosRef, objects')
    /\ UNCHANGED <<uiVars, clock, authVars, last, calls, twinVars, gateVars,
                   userTodosRef>>

Step(w) == Lookup(w) \/ TryAddPartition(w) \/ Apply(w)

NextRace ==
    \/ \E w \in Workers, u \in Subjects : \E c \in RaceCallsOf(u) : Begin(w, u, c)
    \/ \E w \in Workers : Lookup(w)
    \/ \E w \in Workers : TryAddPartition(w)
    \/ \E w \in Workers : Apply(w)

InitRace == InitAuth /\ InitRaceStore /\ InitTwin /\ InitGate /\ InitComponent

SpecRace == InitRace /\ [][NextRace]_vars

\* the thread pool runs every worker that has a step to take
SpecRaceFair == SpecRace /\ \A w \in Workers : WF_vars(Step(w))

----------------------------------------------------------------------------
(* Properties of concurrent requests *)

Done == {w \in Workers : workers[w].pc = "done"}

\* the orders in which the calls that have returned can be lined up: a call
\* that had returned before another began comes before it
Orders ==
    {order \in [1 .. Cardinality(Done) -> Done] :
        /\ \A i, j \in 1 .. Cardinality(Done) : i # j => order[i] # order[j]
        /\ \A i, j \in 1 .. Cardinality(Done) :
               order[i] \in workers[order[j]].after => i < j}

\* running the calls of order one after the other, from the k-th on, on the
\* store (todos, ids) gives every call the answer its worker returned and
\* ends in the store as it is now
RECURSIVE Explains(_, _, _, _)
Explains(order, k, todos, ids) ==
    IF k > Len(order)
    THEN /\ \A u \in Subjects : Partition(todos, u) = Partition(userTodos, u)
         /\ ids = nextId
    ELSE \E out \in Execute(todos, ids, workers[order[k]].userId,
                            workers[order[k]].call, clock) :
             /\ out.status = workers[order[k]].status
             /\ out.items = workers[order[k]].items
             /\ Explains(order, k + 1, out.todos, out.ids)

Linearizable ==
    \E order \in Orders : Explains(order, 1, RaceStart.todos, RaceStart.ids)

\* the worker has returned from that call with that status
Answered(w, op, status) ==
    /\ workers[w].pc = "done"
    /\ workers[w].call.op = op
    /\ workers[w].status = status

C27_OnePartition ==
    /\ \A w \in Workers :
           workers[w].pc \in {"have", "done"} =>
               /\ workers[w].userId \in DOMAIN userTodosRef
               /\ workers[w].ref = userTodosRef[workers[w].userId]
    /\ \A w \in Workers :
           Answered(w, "create", "Ok") =>
               \/ /\ workers[w].items[1].id \in DOMAIN userTodos[workers[w].userId]
                  /\ userTodos[workers[w].userId][workers[w].items[1].id].owner =
                         workers[w].userId
               \/ \E v \in Workers :
                      /\ Answered(v, "delete", "Ok")
                      /\ workers[v].userId = workers[w].userId
                      /\ workers[v].call.id = workers[w].items[1].id
    /\ \A w, v \in Workers :
           (w # v /\ Answered(w, "create", "Ok") /\ Answered(v, "create", "Ok")
                /\ workers[w].userId = workers[v].userId) =>
               workers[w].items[1].id # workers[v].items[1].id

\* two creates of a subject never seen before raced for the partition: both
\* constructed one, one of them lost the add, and both have returned
C27_Witness ==
    \E w, v \in Workers :
        /\ w # v
        /\ Answered(w, "create", "Ok")
        /\ Answered(v, "create", "Ok")
        /\ workers[w].userId = workers[v].userId
        /\ workers[w].lost
        /\ workers[v].ref = v

\* the worker is between the arrival of its request and its return
Running(w) == workers[w].pc \in {"lookup", "tryadd", "have"}

\* C28: a worker that is running a store call can always take its next step,
\* whatever the other workers are doing and on whichever partition; and when
\* every worker that can take a step is eventually run, every call that has
\* begun returns.
C28_NoBlockingAndProgress ==
    /\ [](\A w \in Workers : Running(w) => ENABLED Step(w))
    /\ \A w \in Workers : Running(w) ~> (workers[w].pc = "done")

\* two calls on different partitions overlapped and both have returned
C28_Witness ==
    \E w, v \in Workers :
        /\ workers[w].pc = "done"
        /\ workers[v].pc = "done"
        /\ workers[w].userId # workers[v].userId
        /\ w \notin workers[v].after
        /\ v \notin workers[w].after

----------------------------------------------------------------------------
(* The three schemes as one validator *)

\* the two issuer entries: issuer URL, expected audiences, source of the
\* signing keys
IssuerEntries ==
    {[issuerUrl |-> IssuerV1, expectedAudiences |-> {ClientId, GraphApi},
      signingKeySource |-> IssuerV1],
     [issuerUrl |-> IssuerV2, expectedAudiences |-> {ClientId, GraphApi},
      signingKeySource |-> IssuerV2]}

\* one validator that picks the entry by the token's issuer (string equality)
\* and runs that entry's checks
SingleValidator(tok, now) ==
    LET entries == {e \in IssuerEntries : e.issuerUrl = tok.iss} IN
    IF entries = {} THEN "UnknownIssuer"
    ELSE LET e == CHOOSE x \in entries : TRUE IN
         IF e.signingKeySource \notin tok.sig THEN "InvalidSignature"
         ELSE IF tok.exp < now - ClockSkewMinutes THEN "Expired"
         ELSE IF tok.aud \cap e.expectedAudiences = {} THEN "AudienceMismatch"
         ELSE "Success"

Accepting == {s \in Schemes : authResult[s] = "Success"}

----------------------------------------------------------------------------
(* The frontend: AppComponent (app.component.ts).  JavaScript runs one      *)
(* callback at a time, so a method runs without interruption up to an       *)
(* await and from there on when the awaited promise settles.  ngOnInit and  *)
(* login are modelled with their awaits.  In the methods that send a        *)
(* request the await of getAuthHeaders is taken together with the call:     *)
(* the request is in flight from the call on, is answered by the backend    *)
(* (policy and store as modelled above) and later runs its callback.        *)

\* the operators below work on the frontend state as one record:
\* c component, m MSAL instance, t awaiting methods, q requests in flight
Ui == [c |-> component, m |-> msal, t |-> tasks, q |-> http]

SetUi(st) ==
    /\ component' = st.c
    /\ msal' = st.m
    /\ tasks' = st.t
    /\ http' = st.q

\* accounts[0] of getAllAccounts()
FirstAccount(accounts) == CHOOSE a \in accounts : TRUE

\* the access token acquireTokenSilent returns for the account: issued by
\* the v2.0 authority for the API's client id
AccessToken(account) ==
    [iss |-> IssuerV2, sig |-> {IssuerV2}, exp |-> FarFuture,
     aud |-> {ClientId}, sub |-> account]

\* headers that carry an Authorization value whether or not a token came
GetAuthHeadersAlways(m, ok) ==
    IF m.active # NoAccount /\ ok THEN AccessToken(m.active)
    ELSE [AccessToken(NoAccount) EXCEPT !.sig = {}]

\* getAuthHeaders: the bearer token of the Authorization header, NoToken when
\* the headers carry none.  ok: acquireTokenSilent resolves with an access
\* token
getAuthHeaders(m, ok) ==
    IF m.active # NoAccount /\ ok THEN AccessToken(m.active) ELSE NoToken

\* the bodies of the requests, as the calls the API dispatches
ListCall == [op |-> "list", id |-> 0, title |-> "", description |-> "",
             value |-> FALSE]
CreateCall(form) == [op |-> "create", id |-> 0, title |-> form.title,
                     description |-> form.description, value |-> FALSE]
PutCall(todo) == [op |-> "update", id |-> todo.id, title |-> todo.title,
                  description |-> todo.description, value |-> todo.isCompleted]
DeleteCall(id) == [op |-> "delete", id |-> id, title |-> "", description |-> "",
                   value |-> FALSE]

\* this.http.<verb>(...).subscribe(...): the request is in flight; kind names
\* the method whose callbacks wait for the response
Request(st, kind, call, ok) ==
    [st EXCEPT !.t.sent = @ + 1,
               !.q = @ \cup {[n |-> st.t.sent + 1, kind |-> kind, call |-> call,
                              token |-> getAuthHeaders(st.m, ok),
                              stage |-> "sent", status |-> "none",
                              items |-> <<>>]}]

loadTodos(st, ok) == Request(st, "loadTodos", ListCall, ok)

getUserProfile(st) ==
    IF st.m.active # NoAccount THEN [st EXCEPT !.c.userProfile = st.m.active]
    ELSE st

\* a setLoginDisplay that always activates the first account
SetLoginDisplayFirst(st, ok) ==
    IF st.m.accounts # {}
    THEN LET active == [st EXCEPT !.c.loginDisplay = TRUE,
                                  !.m.active = FirstAccount(st.m.accounts)]
         IN loadTodos(getUserProfile(active), ok)
    ELSE [st EXCEPT !.c.loginDisplay = FALSE, !.c.userProfile = NoAccount,
                    !.c.todos = <<>>, !.t.cleared = TRUE]

\* setLoginDisplay; tasks.cleared records that it has run with no account
setLoginDisplay(st, ok) ==
    IF st.m.accounts # {}
    THEN LET active == [st EXCEPT !.c.loginDisplay = TRUE,
                                  !.m.active = IF @ = NoAccount
                                               THEN FirstAccount(st.m.accounts)
                                               ELSE @]
         IN loadTodos(getUserProfile(active), ok)
    ELSE [st EXCEPT !.c.loginDisplay = FALSE, !.c.userProfile = NoAccount,
                    !.c.todos = <<>>, !.t.cleared = TRUE]

checkAndSetActiveAccount(st) ==
    IF st.m.active = NoAccount /\ st.m.accounts # {}
    THEN [st EXCEPT !.m.active = FirstAccount(st.m.accounts)]
    ELSE st

\* the state after construction: the MSAL cache holds what earlier visits
\* left in it, and preInitializeAuthState has seen the cached accounts or,
\* with the instance not ready, none
InitUi ==
    /\ \E accounts \in SUBSET Subjects, seen \in BOOLEAN :
          /\ \E active \in accounts \cup {NoAccount} :
                 msal = [accounts |-> accounts, active |-> active]
          /\ component = IF seen /\ accounts # {}
                         THEN [FieldInitializers EXCEPT !.loginDisplay = TRUE,
                                                        !.isInitializing = FALSE]
                         ELSE FieldInitializers
    /\ tasks = NoTasks
    /\ http = {}

InitFrontend == InitAuth /\ InitStore /\ InitTwin /\ InitGate /\ InitWorkers /\ InitUi

UiFrame == UNCHANGED <<clock, authVars, storeVars, twinVars, gateVars, raceVars>>

\* an end of ngOnInit that leaves isInitializing as it is
FinallySkip(st) == [st EXCEPT !.t.ngOnInit = "done"]

\* finally { this.isInitializing = false }: ngOnInit has returned
Finally(st) == [st EXCEPT !.c.isInitializing = FALSE, !.t.ngOnInit = "done"]

\* ngOnInit up to its first await: the listeners are set up and MSAL's
\* initialize() is awaited
ngOnInit ==
    /\ tasks.ngOnInit = "constructed"
    /\ component' = [component EXCEPT !.subscribed = TRUE]
    /\ tasks' = [tasks EXCEPT !.ngOnInit = "initialize"]
    /\ UNCHANGED <<msal, http>>
    /\ UiFrame

\* initialize() resolves and handleRedirectPromise() is awaited, or it
\* rejects and ngOnInit ends in catch and finally
Initialized(resolved) ==
    /\ tasks.ngOnInit = "initialize"
    /\ SetUi(IF resolved THEN [Ui EXCEPT !.t.ngOnInit = "handleRedirectPromise"]
             ELSE Finally(Ui))
    /\ UiFrame

\* handleRedirectPromise() settles: with the account of a login that has
\* just returned (on the callback route or not), with no result, or with an
\* error
RedirectHandled(resolved, account, callback, ok) ==
    /\ tasks.ngOnInit = "handleRedirectPromise"
    /\ LET st == Ui
           returned == [st EXCEPT !.m.accounts = @ \cup {account},
                                  !.m.active = account,
                                  !.c.loginDisplay = TRUE,
                                  !.c.isInitializing = FALSE]
           existing == [st EXCEPT !.m.active = FirstAccount(st.m.accounts),
                                  !.c.loginDisplay = TRUE]
           after ==
               IF ~resolved THEN Finally(st)
               ELSE IF account # NoAccount
               THEN IF callback THEN [returned EXCEPT !.t.ngOnInit = "navigate"]
                    ELSE Finally(loadTodos(getUserProfile(returned), ok))
               ELSE IF st.m.accounts # {}
               THEN Finally(loadTodos(getUserProfile(existing), ok))
               ELSE Finally(st)
       IN /\ after.t.sent <= MaxRequests
          /\ SetUi(after)
    /\ UiFrame

\* router.navigate(['/']) settles
Navigated(resolved, ok) ==
    /\ tasks.ngOnInit = "navigate"
    /\ LET after == IF resolved THEN Finally(loadTodos(getUserProfile(Ui), ok))
                    ELSE Finally(Ui)
       IN /\ after.t.sent <= MaxRequests
          /\ SetUi(after)
    /\ UiFrame

\* an ngOnDestroy that leaves the two subscriptions in place
NgOnDestroyKeep ==
    /\ tasks.ngOnInit # "constructed"
    /\ ~component.destroyed
    /\ component' = [component EXCEPT !.destroyed = TRUE]
    /\ UNCHANGED <<msal, tasks, http>>
    /\ UiFrame

\* ngOnDestroy: _destroying$ emits, which ends the two subscriptions
ngOnDestroy ==
    /\ tasks.ngOnInit # "constructed"
    /\ ~component.destroyed
    /\ component' = [component EXCEPT !.subscribed = FALSE, !.destroyed = TRUE]
    /\ UNCHANGED <<msal, tasks, http>>
    /\ UiFrame

\* inProgress$ emits InteractionStatus.None
InProgressNone(ok) ==
    /\ IF component.subscribed
       THEN LET reset == [Ui EXCEPT !.c.loginInProgress = FALSE,
                                    !.t.redirects = 0]
                after == checkAndSetActiveAccount(setLoginDisplay(reset, ok))
            IN /\ after.t.sent <= MaxRequests
               /\ SetUi(after)
       ELSE UNCHANGED uiVars
    /\ UiFrame

\* msalSubject$ emits msal:loginSuccess
LoginSuccess(ok) ==
    /\ IF component.subscribed
       THEN LET after == checkAndSetActiveAccount(setLoginDisplay(Ui, ok))
            IN /\ after.t.sent <= MaxRequests
               /\ SetUi(after)
       ELSE UNCHANGED uiVars
    /\ UiFrame

\* the template is on the page and takes the user's clicks: Angular renders
\* it after ngOnInit has been called and until the component is destroyed
Rendered == tasks.ngOnInit # "constructed" /\ ~component.destroyed

\* login() up to its await: nothing when a login is in progress; otherwise
\* clearCache() is awaited when accounts are cached, and loginRedirect is
\* called at once when none is
Login(st) ==
    IF st.c.loginInProgress THEN st
    ELSE IF st.m.accounts # {}
    THEN [st EXCEPT !.c.loginInProgress = TRUE, !.t.logins = @ + 1]
    ELSE [st EXCEPT !.c.loginInProgress = TRUE, !.t.redirects = @ + 1]

login ==
    /\ Rendered
    /\ Login(Ui).t.logins <= MaxLogins
    /\ Login(Ui).t.redirects <= MaxLogins
    /\ SetUi(Login(Ui))
    /\ UiFrame

\* the clearCache() a login() awaits settles: the cache is empty and
\* loginRedirect is called, or the error is caught and loginInProgress reset
CacheCleared(resolved) ==
    /\ tasks.logins > 0
    /\ SetUi(IF resolved
             THEN [Ui EXCEPT !.m = EmptyCache, !.t.logins = @ - 1,
                             !.t.redirects = @ + 1]
             ELSE [Ui EXCEPT !.c.loginInProgress = FALSE, !.t.logins = @ - 1,
                             !.t.redirects = 0])
    /\ UiFrame

\* logout(): clearCache() empties the cache, logoutRedirect follows
logout ==
    /\ Rendered
    /\ msal.accounts # {}
    /\ msal' = EmptyCache
    /\ UNCHANGED <<component, tasks, http>>
    /\ UiFrame

\* what the user types into the title of the new-todo form
FormTitles == {"t1", " "}

\* the user fills in the new-todo form
TypeNewTodo(title) ==
    /\ Rendered
    /\ component.newTodo.title # title
    /\ component' = [component EXCEPT !.newTodo = [title |-> title,
                                                   description |-> "d"]]
    /\ UNCHANGED <<msal, tasks, http>>
    /\ UiFrame

\* an addTodo that sends whatever the form holds
AddTodoUnchecked(st, ok) == Request(st, "addTodo", CreateCall(st.c.newTodo), ok)

\* addTodo: a create request, unless the trimmed title is empty
AddTodo(st, ok) ==
    IF Trim(st.c.newTodo.title) # ""
    THEN Request(st, "addTodo", CreateCall(st.c.newTodo), ok)
    ELSE st

addTodo(ok) ==
    /\ Rendered
    /\ AddTodo(Ui, ok).t.sent <= MaxRequests
    /\ SetUi(AddTodo(Ui, ok))
    /\ UiFrame

\* editTodo(todo): a copy of the listed todo goes into the edit form, where
\* the user changes its title
editTodo(i) ==
    /\ Rendered
    /\ i \in DOMAIN component.todos
    /\ component.editingTodo = NoTodo
    /\ component' = [component EXCEPT
                        !.editingTodo = [component.todos[i] EXCEPT !.title = "t2"]]
    /\ UNCHANGED <<msal, tasks, http>>
    /\ UiFrame

cancelEdit ==
    /\ Rendered
    /\ component.editingTodo # NoTodo
    /\ component' = [component EXCEPT !.editingTodo = NoTodo]
    /\ UNCHANGED <<msal, tasks, http>>
    /\ UiFrame

\* updateTodo: PUT of the edited todo
updateTodo(ok) ==
    /\ Rendered
    /\ component.editingTodo # NoTodo
    /\ tasks.sent < MaxRequests
    /\ SetUi(Request(Ui, "updateTodo", PutCall(component.editingTodo), ok))
    /\ UiFrame

\* deleteTodo(todo.id) of a listed todo
deleteTodo(i, ok) ==
    /\ Rendered
    /\ i \in DOMAIN component.todos
    /\ tasks.sent < MaxRequests
    /\ SetUi(Request(Ui, "deleteTodo", DeleteCall(component.todos[i].id), ok))
    /\ UiFrame

\* a toggleComplete that sends the flipped todo and leaves the list alone
ToggleCompleteRemote(st, i, ok) ==
    Request(st, "toggleComplete",
            PutCall([st.c.todos[i] EXCEPT !.isCompleted = ~@]), ok)

\* toggleComplete(todo) of a listed todo: the todo is flipped in place, then
\* sent with PUT
ToggleComplete(st, i, ok) ==
    LET flipped == [st EXCEPT !.c.todos[i].isCompleted = ~@]
    IN Request(flipped, "toggleComplete", PutCall(flipped.c.todos[i]), ok)

toggleComplete(i, ok) ==
    /\ Rendered
    /\ i \in DOMAIN component.todos
    /\ tasks.sent < MaxRequests
    /\ SetUi(ToggleComplete(Ui, i, ok))
    /\ UiFrame

\* a request in flight with its response filled in
Answer(x, status, items) ==
    [x EXCEPT !.stage = "answered", !.status = status, !.items = items]

\* the request with number n
Exchange(n) == CHOOSE x \in http : x.n = n

\* the backend answers the request n in flight: the default policy validates
\* the bearer token, the controller calls the store for the token's subject;
\* a request that is rejected gets an error response
Serve(n) ==
    /\ \E x \in http : x.n = n /\ x.stage = "sent"
    /\ LET x == Exchange(n)
           results == [sch \in Schemes |-> HandleAuthenticate(sch, x.token, clock)]
       IN IF RequireAuthenticatedUser(results) /\ x.token.sub # NoSubject
          THEN /\ calls < MaxCalls
               /\ x.call.op = "create" => nextId[x.token.sub] <= MaxId
               /\ \E out \in Execute(userTodos, nextId, x.token.sub, x.call, clock) :
                      /\ Return(x.call.op, x.token.sub,
                                CallId(nextId, x.token.sub, x.call), out)
                      /\ http' = (http \ {x}) \cup {Answer(x, out.status, out.items)}
          ELSE /\ http' = (http \ {x}) \cup {Answer(x, "AuthError", <<>>)}
               /\ UNCHANGED storeVars
    /\ UNCHANGED <<component, msal, tasks>>
    /\ UNCHANGED <<clock, authVars, twinVars, gateVars, raceVars>>

\* todos[index] = updatedTodo for the index of the entry with that id
Replace(list, todo) ==
    [k \in DOMAIN list |-> IF list[k].id = todo.id
                              /\ \A j \in 1 .. k - 1 : list[j].id # todo.id
                           THEN todo ELSE list[k]]

\* todos.filter(t => t.id !== id)
RECURSIVE Filter(_, _)
Filter(list, id) ==
    IF list = <<>> THEN <<>>
    ELSE IF Head(list).id = id THEN Filter(Tail(list), id)
    ELSE <<Head(list)>> \o Filter(Tail(list), id)

\* callbacks that treat an error response like a success without a body
SubscribeAnyResponse(c, x) ==
    CASE x.kind = "loadTodos" -> [c EXCEPT !.todos = x.items]
      [] x.kind = "addTodo" ->
             [c EXCEPT !.todos = IF x.items # <<>> THEN Append(@, x.items[1]) ELSE @,
                       !.newTodo = EmptyForm]
      [] x.kind = "updateTodo" ->
             [c EXCEPT !.todos = IF x.items # <<>> THEN Replace(@, x.items[1]) ELSE @,
                       !.editingTodo = NoTodo]
      [] x.kind = "toggleComplete" ->
             [c EXCEPT !.todos = IF x.items # <<>> THEN Replace(@, x.items[1]) ELSE @]
      [] x.kind = "deleteTodo" -> [c EXCEPT !.todos = Filter(@, x.call.id)]

\* the next and error callbacks of the subscribe calls: what the response to
\* a request does to the component
Subscribe(c, x) ==
    IF x.status # "Ok" THEN c
    ELSE CASE x.kind = "loadTodos" -> [c EXCEPT !.todos = x.items]
           [] x.kind = "addTodo" ->
                  [c EXCEPT !.todos = Append(@, x.items[1]),
                            !.newTodo = EmptyForm]
           [] x.kind = "updateTodo" ->
                  [c EXCEPT !.todos = Replace(@, x.items[1]),
                            !.editingTodo = NoTodo]
           [] x.kind = "toggleComplete" ->
                  [c EXCEPT !.todos = Replace(@, x.items[1])]
           [] x.kind = "deleteTodo" -> [c EXCEPT !.todos = Filter(@, x.call.id)]

\* the response to the request n arrives
Respond(n) ==
    /\ \E x \in http : x.n = n /\ x.stage = "answered"
    /\ component' = Subscribe(component, Exchange(n))
    /\ http' = http \ {Exchange(n)}
    /\ UNCHANGED <<msal, tasks>>
    /\ UiFrame

----------------------------------------------------------------------------
(* The component's life: start-up, the MSAL broadcasts, login and logout.  *)
(* The requests the handlers send stay in flight.                          *)

NextLogin ==
    \/ ngOnInit
    \/ \E resolved \in BOOLEAN : Initialized(resolved)
    \/ \E resolved, callback, ok \in BOOLEAN, account \in Subjects \cup {NoAccount} :
           RedirectHandled(resolved, account, callback, ok)
    \/ \E resolved, ok \in BOOLEAN : Navigated(resolved, ok)
    \/ ngOnDestroy
    \/ \E ok \in BOOLEAN : InProgressNone(ok)
    \/ \E ok \in BOOLEAN : LoginSuccess(ok)
    \/ login
    \/ \E resolved \in BOOLEAN : CacheCleared(resolved)
    \/ logout

SpecLogin == InitFrontend /\ [][NextLogin]_vars

\* Angular calls ngOnInit once the component is constructed, and the
\* promises ngOnInit awaits settle
SpecLoginFair ==
    /\ SpecLogin
    /\ WF_vars(ngOnInit)
    /\ WF_vars(\E resolved \in BOOLEAN : Initialized(resolved))
    /\ WF_vars(\E resolved, callback, ok \in BOOLEAN,
                  account \in Subjects \cup {NoAccount} :
                      RedirectHandled(resolved, account, callback, ok))
    /\ WF_vars(\E resolved, ok \in BOOLEAN : Navigated(resolved, ok))

(* The todo list: the user's actions on it, the API that answers the       *)
(* requests, and the broadcasts and the logout that change who is logged   *)
(* in while requests are in flight.                                        *)

NextTodos ==
    \/ ngOnInit
    \/ \E ok \in BOOLEAN : InProgressNone(ok)
    \/ logout
    \/ \E title \in FormTitles : TypeNewTodo(title)
    \/ \E ok \in BOOLEAN : addTodo(ok)
    \/ \E i \in 1 .. MaxId : editTodo(i)
    \/ cancelEdit
    \/ \E ok \in BOOLEAN : updateTodo(ok)
    \/ \E i \in 1 .. MaxId, ok \in BOOLEAN : deleteTodo(i, ok)
    \/ \E i \in 1 .. MaxId, ok \in BOOLEAN : toggleComplete(i, ok)
    \/ \E n \in 1 .. MaxRequests : Serve(n)
    \/ \E n \in 1 .. MaxRequests : Respond(n)

SpecTodos == InitFrontend /\ [][NextTodos]_vars

----------------------------------------------------------------------------
(* Properties of the component *)

\* C31: login() is not re-entrant: between two resets of loginInProgress (by
\* an inProgress$ None event or by a caught login error) at most one
\* loginRedirect is issued, however login() calls interleave with the
\* awaited clearCache().  tasks.redirects counts the loginRedirect calls
\* since the last reset.
C31_OneRedirectPerReset == tasks.redirects <= 1

\* C32: on every path through ngOnInit (a redirect result, an existing
\* account, no account, or a failing initialize/handleRedirectPromise/
\* navigate) isInitializing becomes false, and once it is false it never
\* becomes true again
C32_InitializingEnds ==
    /\ (tasks.ngOnInit # "constructed") ~> ~component.isInitializing
    /\ [](~component.isInitializing => [] ~component.isInitializing)

\* ngOnInit has ended in its finally block after a rejected promise or with
\* nobody logged in
C32_Witness ==
    /\ tasks.ngOnInit = "done"
    /\ ~component.isInitializing
    /\ ~component.loginDisplay
    /\ tasks.sent = 0

\* C33: once setLoginDisplay has run with no accounts (loginDisplay false,
\* userProfile null, todos empty), loginDisplay = false implies that todos
\* is empty, also when the response to a request sent before the logout
\* arrives afterwards
C33_ClearedStaysCleared ==
    (tasks.cleared /\ ~component.loginDisplay) => component.todos = <<>>

\* a broadcast the listeners receive: inProgress$ emits None or msalSubject$
\* emits msal:loginSuccess
Broadcast == \E ok \in BOOLEAN : InProgressNone(ok) \/ LoginSuccess(ok)

\* C34: when MSAL reports at least one account, an active account is set
\* after setLoginDisplay and checkAndSetActiveAccount have run, and these
\* handlers never replace an active account that is already set
C34_ActiveAccountKept ==
    [][(Broadcast /\ component.subscribed /\ msal.accounts # {})
          => /\ msal'.active \in msal.accounts
             /\ msal.active # NoAccount => msal'.active = msal.active]_vars

\* the handlers have run with two cached accounts and the active one is not
\* the first of them
C34_Witness ==
    /\ component.subscribed
    /\ tasks.ngOnInit = "initialize"
    /\ tasks.sent > 0
    /\ Cardinality(msal.accounts) = 2
    /\ msal.active # NoAccount
    /\ msal.active # FirstAccount(msal.accounts)

\* C39: after ngOnDestroy no MSAL broadcast (interaction status None or
\* login success) changes loginInProgress, loginDisplay, userProfile or
\* todos, and none sends a request
C39_NoBroadcastAfterDestroy ==
    [][(Broadcast /\ component.destroyed)
          => UNCHANGED <<component.loginInProgress, component.loginDisplay,
                         component.userProfile, component.todos, http>>]_vars

\* the component is destroyed in a state a None event would have changed
C39_Witness ==
    /\ component.destroyed
    /\ component.loginInProgress
    /\ msal.accounts # {}
    /\ ~component.loginDisplay

Response(n, kind) == Respond(n) /\ Exchange(n).kind = kind

\* C36: addTodo sends nothing when the title is empty or white space only;
\* otherwise it sends the form as a create request and changes neither
\* todos nor newTodo; the success callback appends the created record and
\* resets newTodo; on error both are as they were
C36_AddTodo ==
    [][/\ \A ok \in BOOLEAN :
              addTodo(ok) =>
                  /\ UNCHANGED component
                  /\ IF component.newTodo.title \in {"", " "}
                     THEN http' = http
                     ELSE \E x \in http' \ http :
                              /\ x.call.op = "create"
                              /\ x.call.title = component.newTodo.title
       /\ \A n \in 1 .. MaxRequests :
              Response(n, "addTodo") =>
                  IF Exchange(n).status = "Ok"
                  THEN /\ Len(component'.todos) = Len(component.todos) + 1
                       /\ SubSeq(component'.todos, 1, Len(component.todos))
                              = component.todos
                       /\ component'.todos[Len(component'.todos)].title
                              = Exchange(n).call.title
                       /\ component'.newTodo = EmptyForm
                  ELSE UNCHANGED <<component.todos, component.newTodo>>]_vars

\* the created record is listed and the form is empty again
C36_Witness ==
    /\ tasks.sent = 1
    /\ http = {}
    /\ Len(component.todos) = 1
    /\ component.todos[1].title = "t1"
    /\ component.newTodo = EmptyForm

\* C37: toggleComplete flips isCompleted of the listed todo before the
\* request is sent, the request carries the flipped value, and a failed
\* request does not flip it back
C37_ToggleOptimistic ==
    [][/\ \A i \in 1 .. MaxId, ok \in BOOLEAN :
              toggleComplete(i, ok) =>
                  /\ component'.todos[i].isCompleted = ~component.todos[i].isCompleted
                  /\ \E x \in http' \ http :
                         /\ x.call.id = component.todos[i].id
                         /\ x.call.value = ~component.todos[i].isCompleted
       /\ \A n \in 1 .. MaxRequests :
              (Response(n, "toggleComplete") /\ Exchange(n).status # "Ok")
                  => UNCHANGED component.todos]_vars

\* a toggle has failed: the list shows the todo completed, the store has it
\* not completed
C37_Witness ==
    /\ http = {}
    /\ Len(component.todos) = 1
    /\ component.todos[1].isCompleted
    /\ \E u \in DOMAIN userTodos :
           /\ component.todos[1].id \in DOMAIN userTodos[u]
           /\ userTodos[u][component.todos[1].id]
                  = [component.todos[1] EXCEPT !.isCompleted = FALSE]

====
